---- MODULE Spec2Model ----
(***************************************************************************)
(* Model of the fast-pin-pon radio link (src/network): the secure frame    *)
(* codec (unit.py, relay.py, bridge_emitter.py), the sender's retry        *)
(* engine (unit.py), the relay's receiving loop and duplicate tracker      *)
(* (relay.py), the receiving bridge's line framing and line handling       *)
(* (bridge_receiver.py) and the bridge behind the relay (bridge.py).       *)
(*                                                                         *)
(* Text is a sequence of one-character strings; Ord gives the code point   *)
(* of a character as Python's ord() does.                                  *)
(***************************************************************************)
EXTENDS Integers, Sequences, FiniteSets, TLC

VARIABLES
    \* ---- codec harness: one encode / tamper / decode experiment
    c_pc,        \* "input" | "encoded" | "tampered" | "decoded"
    c_data,      \* payload handed to the encoder
    c_seq,       \* value of the sender's sequence counter when encoding
    c_frame,     \* frame text on the wire
    c_tamper,    \* what was done to the frame after encoding
    c_result,    \* what parse_secure_message returned
    \* ---- unit.py (the sender)
    u_pc,              \* "start" | "check_ack" | "rest": position in the main loop
    u_now,             \* running_time()
    u_current_status,  \* current_status
    sequence_number,
    waiting_for_ack,
    last_message,
    retry_count,
    last_retry_time,
    last_send_time,
    u_inbox,           \* the unit's radio queue
    \* ---- what the unit was seen to do (observation only)
    tx_count,          \* radio.send calls made for the frame of the latest send_secure
    u_last_tx,         \* the unit's latest radio.send: how it was made and its text
    sent_text,         \* the text put on the air by the latest send_secure
    ack_heard,         \* "no" | "matching" | "foreign": ACK taken since the latest send_secure
    \* ---- relay.py (the receiver)
    r_inbox,           \* the relay's radio queue
    last_sequences,
    r_current_status,  \* current_status
    r_out,             \* what the latest loop iteration sent by radio and printed
    \* ---- the rest of the radio channel
    o_sequence_number, \* sequence counter of a second unit
    foreign_sent,      \* frames put on the air by other senders so far
    \* ---- duplicate tracker harness
    d_hist,            \* the is_duplicate calls made and their results
    \* ---- bridge_receiver.py (the gateway)
    microbit_to_unit,  \* the mapping cache
    last_statuses,
    g_calls,           \* the backend writes made so far, in order, with the line behind each
    g_lines,           \* lines handed to process_line so far
    g_log,             \* each line processed so far: its text, the mapping's answer, its writes
    g_refreshes,       \* mapping refreshes made so far
    \* ---- bridge.py (the gateway fed by the relay)
    known_units,       \* the cache call_sign -> unit id
    b_last_statuses,   \* last_statuses of run_bridge_loop
    b_log,             \* each line processed so far: its text and its backend requests
    \* ---- the serial line of bridge_receiver.py
    f_stream,          \* the bytes the serial port delivers
    f_pos,             \* how many of them have been read
    f_prev,            \* how many had been read before the latest read
    f_before,          \* the buffer and the number of lines yielded before that read
    serial_buffer,
    \* ---- the mapping refresh of bridge_receiver.py seen from the serial port
    g_pc,              \* "loop" | "loading": run_main_loop is inside load_microbit_cache
    g_port,            \* the lines waiting in the serial port, with what held on arrival
    g_before,          \* the mapping cache as it was when the latest refresh began
    g_response,        \* what the backend answered to the latest load of the mapping
    \* ---- a sender building frame after frame
    w_built,           \* frames built so far
    \* ---- the three receiving loops fed with damaged input
    i_log,             \* the inputs fed so far: the loop, the text, what became of it
    \* ---- a bridge process from start to exit
    p_prog,            \* "bridge_receiver" | "bridge_emitter" | "bridge"
    p_pc,              \* position in main()
    p_ser,             \* "none" | "open" | "closed": the serial handle
    p_exit,            \* exit status of the process, -1 while it runs
    p_cause,           \* what ended the process
    p_tries,           \* health checks made by wait_for_api
    p_passes,          \* passes of the main loop
    \* ---- what the relay has forwarded to the PC
    r_forwarded,       \* the reports printed so far, each with its frame's sequence
    \* ---- token_manager.py: one TokenManager and the threads calling get_token
    access_token,      \* self.access_token, NO_TOKEN for None
    expires_at,        \* self.expires_at
    t_lock,            \* the thread holding self._lock, 0 when it is free
    t_pc,              \* per thread: "idle" | "waiting" | "check" | "fetch" | "return"
    t_now,             \* time.time()
    t_seen,            \* per thread: what its current call read and did
    t_log,             \* the finished calls, in the order they held the lock
    t_calls,           \* calls of get_token started so far
    \* ---- crypto.py: one text through xor_encrypt and xor_decrypt
    x_pc,              \* "input" | "encrypted" | "received" | "raised" | "round_trip" | "decrypted"
    x_data,            \* the plain text
    x_key,             \* the key
    x_encrypted,       \* the text handed to xor_decrypt
    x_decrypted        \* what xor_decrypt returned

codec_vars == <<c_pc, c_data, c_seq, c_frame, c_tamper, c_result>>

unit_vars ==
    <<u_pc, u_now, u_current_status, sequence_number, waiting_for_ack, last_message,
      retry_count, last_retry_time, last_send_time, u_inbox>>

seen_vars == <<tx_count, u_last_tx, sent_text, ack_heard>>

relay_vars == <<r_inbox, last_sequences, r_current_status, r_out>>

channel_vars == <<o_sequence_number, foreign_sent>>

radio_vars == <<unit_vars, seen_vars, relay_vars, channel_vars>>

dup_vars == <<d_hist>>

gateway_vars == <<microbit_to_unit, last_statuses, g_calls, g_lines, g_log, g_refreshes>>

bridge_vars == <<known_units, b_last_statuses, b_log>>

framer_vars == <<f_stream, f_pos, f_prev, f_before, serial_buffer>>

refresh_vars == <<g_pc, g_port, g_before, g_response>>

wrap_vars == <<w_built>>

input_vars == <<i_log>>

proc_vars == <<p_prog, p_pc, p_ser, p_exit, p_cause, p_tries, p_passes>>

once_vars == <<r_forwarded>>

token_vars == <<access_token, expires_at, t_lock, t_pc, t_now, t_seen, t_log, t_calls>>

crypto_vars == <<x_pc, x_data, x_key, x_encrypted, x_decrypted>>

-----------------------------------------------------------------------------
\* Bounds of the model.

\* longest payload drawn for the codec experiments
MaxLen == 2

\* latest running_time() the unit is followed to: a send and its
\* MAX_RETRIES retransmissions fit, the periodic send does not
MaxTime == 2400

\* send_secure calls a button press may still start (the periodic send is not capped)
MaxSends == 2

\* packets a radio queue is followed with (radio.config sets queue=10)
MaxQueue == 1

\* frames the other stations (the second unit, other senders) put on the air
MaxForeign == 1

\* is_duplicate calls of the duplicate tracker harness
MaxObs == 3

\* lines the gateway is followed through
MaxLines == 3

\* mapping refreshes the gateway is followed through
MaxRefresh == 1

\* frames the relay hears in the relay harness
MaxHeard == 4

\* lines bridge.py is followed through
MaxBridgeLines == 3

-----------------------------------------------------------------------------
\* Characters and text.

\* characters that TLA+ strings cannot hold directly
DQuote == "<U+0022>"

BSlash == "<U+005C>"

LF == "<U+000A>"

CR == "<U+000D>"

TAB == "<U+0009>"

BTick == "<U+0060>"

\* printable ASCII, code points 32..126, in order
Ascii ==
    <<" ", "!", DQuote, "#", "$", "%", "&", "'", "(", ")", "*", "+", ",", "-", ".", "/",
      "0", "1", "2", "3", "4", "5", "6", "7", "8", "9", ":", ";", "<", "=", ">", "?",
      "@", "A", "B", "C", "D", "E", "F", "G", "H", "I", "J", "K", "L", "M", "N", "O",
      "P", "Q", "R", "S", "T", "U", "V", "W", "X", "Y", "Z", "[", BSlash, "]", "^", "_",
      BTick, "a", "b", "c", "d", "e", "f", "g", "h", "i", "j", "k", "l", "m", "n", "o",
      "p", "q", "r", "s", "t", "u", "v", "w", "x", "y", "z", "{", "|", "}", "~">>

\* a character outside Latin-1: U+2041, whose code point is ord("A") + 8192
Wide == "<U+2041>"

AsciiChars == {Ascii[i] : i \in 1..Len(Ascii)}

OrdTable ==
    [c \in AsciiChars \cup {LF, CR, TAB, Wide} |->
        IF c = LF THEN 10
        ELSE IF c = CR THEN 13
        ELSE IF c = TAB THEN 9
        ELSE IF c = Wide THEN 8257
        ELSE 31 + (CHOOSE i \in 1..Len(Ascii) : Ascii[i] = c)]

\* Python ord()
Ord(c) == OrdTable[c]

Digits == <<"0", "1", "2", "3", "4", "5", "6", "7", "8", "9">>

DigitChars == {Digits[i] : i \in 1..10}

DigitVal(c) == Ord(c) - 48

Whitespace == {" ", LF, CR, TAB}

RECURSIVE NatStr(_)
\* decimal text of a natural number
NatStr(n) ==
    IF n < 10 THEN <<Digits[n + 1]>>
    ELSE NatStr(n \div 10) \o <<Digits[(n % 10) + 1]>>

\* Python str(int) and "{}".format(int)
Str(n) == IF n < 0 THEN <<"-">> \o NatStr(0 - n) ELSE NatStr(n)

RECURSIVE LStrip(_)
LStrip(s) ==
    IF s /= <<>> /\ Head(s) \in Whitespace THEN LStrip(Tail(s)) ELSE s

RECURSIVE RStrip(_)
RStrip(s) ==
    IF s /= <<>> /\ s[Len(s)] \in Whitespace
    THEN RStrip(SubSeq(s, 1, Len(s) - 1))
    ELSE s

\* Python str.strip()
Strip(s) == RStrip(LStrip(s))

RECURSIVE DigitsVal(_, _)
DigitsVal(acc, s) ==
    IF s = <<>> THEN acc ELSE DigitsVal(acc * 10 + DigitVal(Head(s)), Tail(s))

AllDigits(s) == s /= <<>> /\ \A i \in 1..Len(s) : s[i] \in DigitChars

\* Python int(text): surrounding whitespace is dropped, one sign is allowed,
\* at least one digit must follow; anything else raises ValueError (ok = FALSE).
IntParse(s) ==
    LET t == Strip(s)
        signed == t /= <<>> /\ Head(t) \in {"+", "-"}
        body == IF signed THEN Tail(t) ELSE t
    IN  IF AllDigits(body)
        THEN [ok |-> TRUE,
              val |-> IF signed /\ Head(t) = "-"
                      THEN 0 - DigitsVal(0, body) ELSE DigitsVal(0, body)]
        ELSE [ok |-> FALSE, val |-> 0]

\* the places of the separator in the text
SepPlaces(s, sep) == {i \in 1..Len(s) : s[i] = sep}

\* the k-th smallest element of a set of numbers
Nth(places, k) == CHOOSE p \in places : Cardinality({q \in places : q < p}) = k - 1

\* Python text.split(sep) for a one-character separator: the pieces between
\* consecutive separators, one more than there are separators
Split(s, sep) ==
    LET places == SepPlaces(s, sep)
        n == Cardinality(places)
        from(k) == IF k = 1 THEN 1 ELSE Nth(places, k - 1) + 1
        to(k) == IF k = n + 1 THEN Len(s) ELSE Nth(places, k) - 1
    IN  [k \in 1..(n + 1) |-> SubSeq(s, from(k), to(k))]

RECURSIVE Join(_, _)
\* Python sep.join(parts)
Join(parts, sep) ==
    IF parts = <<>> THEN <<>>
    ELSE IF Len(parts) = 1 THEN parts[1]
    ELSE parts[1] \o <<sep>> \o Join(Tail(parts), sep)

\* Python text.startswith(prefix)
StartsWith(s, prefix) ==
    Len(s) >= Len(prefix) /\ SubSeq(s, 1, Len(prefix)) = prefix

-----------------------------------------------------------------------------
\* The shared secret and the two folds (unit.py; relay.py holds the same code).

SECRET_KEY == <<"F", "P", "P", "2", "0", "2", "4">>

\* one turn of the checksum loop: add the character, rotate left by one bit
crc_step(crc, char) ==
    LET a == (crc + Ord(char)) % 256
    IN  ((a * 2) % 256) + (a \div 128)

RECURSIVE crc_fold(_, _, _, _)
\* the checksum loop over data[lo..hi], left to right, starting from crc (the
\* range is halved, and the left half's value settled first, only to keep the
\* evaluation shallow)
crc_fold(crc, data, lo, hi) ==
    IF lo > hi THEN crc
    ELSE IF lo = hi THEN crc_step(crc, data[lo])
    ELSE LET left == crc_fold(crc, data, lo, (lo + hi) \div 2)
         IN  IF left >= 0
             THEN crc_fold(left, data, ((lo + hi) \div 2) + 1, hi)
             ELSE 0

\* unit.py compute_crc8
compute_crc8(data) == crc_fold(0, data, 1, Len(data))

RECURSIVE sig_fold(_, _, _, _)
\* the signature loop over combined[lo..hi], left to right, starting from sig;
\* the character at index i (from 0) weighs i + 1
sig_fold(sig, combined, lo, hi) ==
    IF lo > hi THEN sig
    ELSE IF lo = hi THEN (sig + Ord(combined[lo]) * lo) % 65536
    ELSE LET left == sig_fold(sig, combined, lo, (lo + hi) \div 2)
         IN  IF left >= 0
             THEN sig_fold(left, combined, ((lo + hi) \div 2) + 1, hi)
             ELSE 0

\* unit.py compute_signature
compute_signature(data, seq) == sig_fold(0, SECRET_KEY \o data \o Str(seq), 1, Len(SECRET_KEY \o data \o Str(seq)))

\* build_secure_message signing with the counter's value after the increment
build_secure_message_late_seq(data, sequence_number_in) ==
    LET seq == sequence_number_in
        crc == compute_crc8(data)
        sig == compute_signature(data, (sequence_number_in + 1) % 256)
    IN  [message |-> Str(seq) \o <<"|">> \o data \o <<"|">> \o Str(crc) \o <<"|">> \o Str(sig),
         seq |-> seq,
         next_sequence_number |-> (sequence_number_in + 1) % 256]

\* build_secure_message that lets the sequence counter grow past 255
build_secure_message_no_wrap(data, sequence_number_in) ==
    LET seq == sequence_number_in
        crc == compute_crc8(data)
        sig == compute_signature(data, seq)
    IN  [message |-> Str(seq) \o <<"|">> \o data \o <<"|">> \o Str(crc) \o <<"|">> \o Str(sig),
         seq |-> seq,
         next_sequence_number |-> sequence_number_in + 1]

\* unit.py build_secure_message: the frame text, the sequence it carries and
\* the value the sequence counter has afterwards
build_secure_message(data, sequence_number_in) ==
    LET seq == sequence_number_in
        crc == compute_crc8(data)
        sig == compute_signature(data, seq)
    IN  [message |-> Str(seq) \o <<"|">> \o data \o <<"|">> \o Str(crc) \o <<"|">> \o Str(sig),
         seq |-> seq,
         next_sequence_number |-> (sequence_number_in + 1) % 256]

\* bridge_emitter.py crc8
crc8(data) == crc_fold(0, data, 1, Len(data))

\* bridge_emitter.py sign
sign(data, seq) == sig_fold(0, SECRET_KEY \o data \o Str(seq), 1, Len(SECRET_KEY \o data \o Str(seq)))

\* bridge_emitter.py build_packet
build_packet(data, out_seq_in) ==
    [packet |-> Str(out_seq_in) \o <<"|">> \o data \o <<"|">> \o Str(crc8(data))
                    \o <<"|">> \o Str(sign(data, out_seq_in)),
     next_out_seq |-> (out_seq_in + 1) % 256]

\* relay.py compute_crc8
relay_compute_crc8(data) == crc_fold(0, data, 1, Len(data))

\* relay.py compute_signature
relay_compute_signature(data, seq) == sig_fold(0, SECRET_KEY \o data \o Str(seq), 1, Len(SECRET_KEY \o data \o Str(seq)))

Rejected(reason) == [seq |-> 0, data |-> <<>>, error |-> reason]

\* parse_secure_message accepting any frame of at least four fields
parse_secure_message_min_fields(packet) ==
    LET parts == Split(packet, "|")
    IN  IF Len(parts) < 4 THEN Rejected("FORMAT")
        ELSE
            LET seq == IntParse(parts[1])
                data == parts[2]
                received_crc == IntParse(parts[3])
                received_sig == IntParse(parts[4])
            IN  IF ~seq.ok \/ ~received_crc.ok \/ ~received_sig.ok
                THEN Rejected("PARSE")
                ELSE IF relay_compute_crc8(data) /= received_crc.val
                THEN Rejected("CRC")
                ELSE IF relay_compute_signature(data, seq.val) /= received_sig.val
                THEN Rejected("SIG")
                ELSE [seq |-> seq.val, data |-> data, error |-> "OK"]

\* parse_secure_message checking the tag before the checksum
parse_secure_message_sig_first(packet) ==
    LET parts == Split(packet, "|")
    IN  IF Len(parts) /= 4 THEN Rejected("FORMAT")
        ELSE
            LET seq == IntParse(parts[1])
                data == parts[2]
                received_crc == IntParse(parts[3])
                received_sig == IntParse(parts[4])
            IN  IF ~seq.ok \/ ~received_crc.ok \/ ~received_sig.ok
                THEN Rejected("PARSE")
                ELSE IF relay_compute_signature(data, seq.val) /= received_sig.val
                THEN Rejected("SIG")
                ELSE IF relay_compute_crc8(data) /= received_crc.val
                THEN Rejected("CRC")
                ELSE [seq |-> seq.val, data |-> data, error |-> "OK"]

\* relay.py parse_secure_message; error "OK" stands for None
parse_secure_message(packet) ==
    LET parts == Split(packet, "|")
    IN  IF Len(parts) /= 4 THEN Rejected("FORMAT")
        ELSE
            LET seq == IntParse(parts[1])
                data == parts[2]
                received_crc == IntParse(parts[3])
                received_sig == IntParse(parts[4])
            IN  IF ~seq.ok \/ ~received_crc.ok \/ ~received_sig.ok
                THEN Rejected("PARSE")
                ELSE IF relay_compute_crc8(data) /= received_crc.val
                THEN Rejected("CRC")
                ELSE IF relay_compute_signature(data, seq.val) /= received_sig.val
                THEN Rejected("SIG")
                ELSE [seq |-> seq.val, data |-> data, error |-> "OK"]

-----------------------------------------------------------------------------
\* Codec harness: encode a payload, optionally damage the frame, decode it.

PayloadChars == {"A", "7", "|", Wide}

RECURSIVE TextsUpTo(_, _)
TextsUpTo(chars, n) ==
    IF n = 0 THEN {<<>>}
    ELSE LET shorter == TextsUpTo(chars, n - 1)
         IN  shorter \cup {Append(t, c) : t \in shorter, c \in chars}

Payloads == TextsUpTo(PayloadChars, MaxLen)

NoTamper == [kind |-> "none", pos |-> 0, text |-> <<>>]

NoResult == [seq |-> 0, data |-> <<>>, error |-> "-"]

CodecInit ==
    /\ c_pc = "input"
    /\ c_data \in Payloads
    /\ c_seq \in 0..255
    /\ c_frame = <<>>
    /\ c_tamper = NoTamper
    /\ c_result = NoResult

\* the sender builds the frame: a unit (build_secure_message) or the emitting
\* bridge (build_packet)
CodecEncode ==
    /\ c_pc = "input"
    /\ \E encoder \in {"unit", "bridge_emitter"} :
          c_frame' = IF encoder = "unit"
                     THEN build_secure_message(c_data, c_seq).message
                     ELSE build_packet(c_data, c_seq).packet
    /\ c_pc' = "encoded"
    /\ UNCHANGED <<c_data, c_seq, c_tamper, c_result>>
    /\ UNCHANGED <<radio_vars, dup_vars, gateway_vars, bridge_vars, framer_vars>>
    /\ UNCHANGED <<refresh_vars, wrap_vars, input_vars, proc_vars, once_vars, token_vars, crypto_vars>>

\* index in the frame of the i-th payload character (after "<seq>|")
PayloadIndex(seq, i) == Len(Str(seq)) + 1 + i

ReplaceAt(s, k, c) == [j \in 1..Len(s) |-> IF j = k THEN c ELSE s[j]]

\* the channel replaces one character of the payload field by a different one
CodecFlipPayloadChar ==
    /\ c_pc = "encoded"
    /\ \E i \in 1..Len(c_data), c \in PayloadChars :
          /\ c /= c_data[i]
          /\ c_frame' = ReplaceAt(c_frame, PayloadIndex(c_seq, i), c)
          /\ c_tamper' = [kind |-> "payload", pos |-> i, text |-> <<c>>]
    /\ c_pc' = "tampered"
    /\ UNCHANGED <<c_data, c_seq, c_result>>
    /\ UNCHANGED <<radio_vars, dup_vars, gateway_vars, bridge_vars, framer_vars>>
    /\ UNCHANGED <<refresh_vars, wrap_vars, input_vars, proc_vars, once_vars, token_vars, crypto_vars>>

FieldSamples == {<<>>, <<"x">>, <<"7">>, <<" ", "7">>, <<"9", "9", "9">>}

\* the channel (or another sender) replaces one whole field of the frame
CodecReplaceField ==
    /\ c_pc = "encoded"
    /\ \E k \in 1..Len(Split(c_frame, "|")), t \in FieldSamples :
          LET parts == Split(c_frame, "|")
          IN  /\ t /= parts[k]
              /\ c_frame' = Join([j \in 1..Len(parts) |-> IF j = k THEN t ELSE parts[j]], "|")
              /\ c_tamper' = [kind |-> "field", pos |-> k, text |-> t]
    /\ c_pc' = "tampered"
    /\ UNCHANGED <<c_data, c_seq, c_result>>
    /\ UNCHANGED <<radio_vars, dup_vars, gateway_vars, bridge_vars, framer_vars>>
    /\ UNCHANGED <<refresh_vars, wrap_vars, input_vars, proc_vars, once_vars, token_vars, crypto_vars>>

\* the frame loses its last field, or gains one
CodecChangeFieldCount ==
    /\ c_pc = "encoded"
    /\ \/ LET parts == Split(c_frame, "|")
          IN  /\ c_frame' = Join(SubSeq(parts, 1, Len(parts) - 1), "|")
              /\ c_tamper' = [kind |-> "drop", pos |-> Len(parts), text |-> <<>>]
       \/ /\ c_frame' = c_frame \o <<"|", "0">>
          /\ c_tamper' = [kind |-> "add", pos |-> 0, text |-> <<"0">>]
    /\ c_pc' = "tampered"
    /\ UNCHANGED <<c_data, c_seq, c_result>>
    /\ UNCHANGED <<radio_vars, dup_vars, gateway_vars, bridge_vars, framer_vars>>
    /\ UNCHANGED <<refresh_vars, wrap_vars, input_vars, proc_vars, once_vars, token_vars, crypto_vars>>

\* the relay decodes what arrived
CodecDecode ==
    /\ c_pc \in {"encoded", "tampered"}
    /\ c_result' = parse_secure_message(c_frame)
    /\ c_pc' = "decoded"
    /\ UNCHANGED <<c_data, c_seq, c_frame, c_tamper>>
    /\ UNCHANGED <<radio_vars, dup_vars, gateway_vars, bridge_vars, framer_vars>>
    /\ UNCHANGED <<refresh_vars, wrap_vars, input_vars, proc_vars, once_vars, token_vars, crypto_vars>>

CodecNext ==
    \/ CodecEncode
    \/ CodecFlipPayloadChar
    \/ CodecReplaceField
    \/ CodecChangeFieldCount
    \/ CodecDecode

\* the codec harness at rest
CodecIdle ==
    /\ c_pc = "input"
    /\ c_data = <<>>
    /\ c_seq = 0
    /\ c_frame = <<>>
    /\ c_tamper = NoTamper
    /\ c_result = NoResult

-----------------------------------------------------------------------------
\* unit.py: the sender.

UNIT_ID == <<"V", "S", "A", "V", "0", "1">>

\* "{:.6f}".format(GPS_LAT)
GPS_LAT == <<"4", "5", ".", "7", "5", "0", "0", "0", "0">>

\* "{:.6f}".format(GPS_LON)
GPS_LON == <<"4", ".", "8", "5", "0", "0", "0", "0">>

STATUS_AVL == <<"A", "V", "L">>

STATUS_ERT == <<"E", "R", "T">>

STATUS_OFF == <<"O", "F", "F">>

SEND_INTERVAL == 5000

ACK_TIMEOUT == 500

MAX_RETRIES == 3

ACK_PREFIX == <<"A", "C", "K", ":">>

UNIT_PREFIX == <<"U", "N", "I", "T", ":">>

\* MSG_FORMAT.format(call_sign, lat, lon, status) on already formatted coordinates
MSG_FORMAT(call_sign, lat, lon, status) ==
    UNIT_PREFIX \o call_sign \o <<",">> \o lat \o <<",">> \o lon \o <<",">> \o status

\* time one pass of the main loop takes: sleep(50) and the work around it
LoopTimes == {300, 600}

\* radio.send as one listener sees it: the packet is queued, or lost on the
\* air or on a full queue
Deliveries(queue, packet) ==
    {queue} \cup (IF Len(queue) < MaxQueue THEN {Append(queue, packet)} ELSE {})

\* check_ack that never counts a retransmission
check_ack_uncounted(waiting, packet, now, lrt, retries) ==
    LET same == [waiting_for_ack |-> waiting, retry_count |-> retries,
                 last_retry_time |-> lrt, received |-> FALSE, resend |-> FALSE]
    IN  IF ~waiting THEN same
        ELSE IF packet /= <<>> /\ StartsWith(packet, ACK_PREFIX)
        THEN [same EXCEPT !.waiting_for_ack = FALSE, !.received = TRUE]
        ELSE IF now - lrt > ACK_TIMEOUT
        THEN IF retries < MAX_RETRIES
             THEN [same EXCEPT !.received = TRUE, !.resend = TRUE,
                               !.last_retry_time = now]
             ELSE [same EXCEPT !.received = TRUE, !.waiting_for_ack = FALSE]
        ELSE [same EXCEPT !.received = TRUE]

\* check_ack allowing one retransmission too many
check_ack_one_more(waiting, packet, now, lrt, retries) ==
    LET same == [waiting_for_ack |-> waiting, retry_count |-> retries,
                 last_retry_time |-> lrt, received |-> FALSE, resend |-> FALSE]
    IN  IF ~waiting THEN same
        ELSE IF packet /= <<>> /\ StartsWith(packet, ACK_PREFIX)
        THEN [same EXCEPT !.waiting_for_ack = FALSE, !.received = TRUE]
        ELSE IF now - lrt > ACK_TIMEOUT
        THEN IF retries <= MAX_RETRIES
             THEN [same EXCEPT !.received = TRUE, !.resend = TRUE,
                               !.retry_count = retries + 1, !.last_retry_time = now]
             ELSE [same EXCEPT !.received = TRUE, !.waiting_for_ack = FALSE]
        ELSE [same EXCEPT !.received = TRUE]

\* check_ack that takes a packet for an ACK only when it is the bare prefix
check_ack_exact(waiting, packet, now, lrt, retries) ==
    LET same == [waiting_for_ack |-> waiting, retry_count |-> retries,
                 last_retry_time |-> lrt, received |-> FALSE, resend |-> FALSE]
    IN  IF ~waiting THEN same
        ELSE IF packet /= <<>> /\ packet = ACK_PREFIX
        THEN [same EXCEPT !.waiting_for_ack = FALSE, !.received = TRUE]
        ELSE IF now - lrt > ACK_TIMEOUT
        THEN IF retries < MAX_RETRIES
             THEN [same EXCEPT !.received = TRUE, !.resend = TRUE,
                               !.retry_count = retries + 1, !.last_retry_time = now]
             ELSE [same EXCEPT !.received = TRUE, !.waiting_for_ack = FALSE]
        ELSE [same EXCEPT !.received = TRUE]

\* unit.py check_ack: packet is what radio.receive() returns (<<>> for None);
\* received says whether radio.receive() was called, resend whether
\* last_message goes on the air again
check_ack(waiting, packet, now, lrt, retries) ==
    LET same == [waiting_for_ack |-> waiting, retry_count |-> retries,
                 last_retry_time |-> lrt, received |-> FALSE, resend |-> FALSE]
    IN  IF ~waiting THEN same
        ELSE IF packet /= <<>> /\ StartsWith(packet, ACK_PREFIX)
        THEN [same EXCEPT !.waiting_for_ack = FALSE, !.received = TRUE]
        ELSE IF now - lrt > ACK_TIMEOUT
        THEN IF retries < MAX_RETRIES
             THEN [same EXCEPT !.received = TRUE, !.resend = TRUE,
                               !.retry_count = retries + 1, !.last_retry_time = now]
             ELSE [same EXCEPT !.received = TRUE, !.waiting_for_ack = FALSE]
        ELSE [same EXCEPT !.received = TRUE]

\* the sequence a frame text carries in its first field
FrameSeq(message) == IntParse(Split(message, "|")[1]).val

\* the number after "ACK:"
AckSeq(packet) == IntParse(SubSeq(packet, Len(ACK_PREFIX) + 1, Len(packet)))

IsAck(packet) == packet /= <<>> /\ StartsWith(packet, ACK_PREFIX)

\* send_secure that leaves the retry counter as it is
send_secure_keep_retries(data) ==
    LET built == build_secure_message(data, sequence_number)
    IN  /\ sequence_number' = built.next_sequence_number
        /\ r_inbox' \in Deliveries(r_inbox, built.message)
        /\ last_message' = built.message
        /\ waiting_for_ack' = TRUE
        /\ UNCHANGED retry_count
        /\ last_retry_time' = u_now
        /\ tx_count' = 1
        /\ u_last_tx' = [kind |-> "send", text |-> built.message]
        /\ sent_text' = built.message
        /\ ack_heard' = "no"

\* send_secure that does not record the frame it transmits
send_secure_keep_message(data) ==
    LET built == build_secure_message(data, sequence_number)
    IN  /\ sequence_number' = built.next_sequence_number
        /\ r_inbox' \in Deliveries(r_inbox, built.message)
        /\ UNCHANGED last_message
        /\ waiting_for_ack' = TRUE
        /\ retry_count' = 0
        /\ last_retry_time' = u_now
        /\ tx_count' = 1
        /\ u_last_tx' = [kind |-> "send", text |-> built.message]
        /\ sent_text' = built.message
        /\ ack_heard' = "no"

\* unit.py send_secure(data): build the frame, put it on the air, arm the retry engine
send_secure(data) ==
    LET built == build_secure_message(data, sequence_number)
    IN  /\ sequence_number' = built.next_sequence_number
        /\ r_inbox' \in Deliveries(r_inbox, built.message)
        /\ last_message' = built.message
        /\ waiting_for_ack' = TRUE
        /\ retry_count' = 0
        /\ last_retry_time' = u_now
        /\ tx_count' = 1
        /\ u_last_tx' = [kind |-> "send", text |-> built.message]
        /\ sent_text' = built.message
        /\ ack_heard' = "no"

\* unit.py lines 138-141: the first report, sent before the main loop
UnitStart ==
    /\ u_pc = "start"
    /\ send_secure(MSG_FORMAT(UNIT_ID, GPS_LAT, GPS_LON, u_current_status))
    /\ last_send_time' = u_now
    /\ u_pc' = "check_ack"
    /\ UNCHANGED <<u_now, u_current_status, u_inbox>>
    /\ UNCHANGED <<last_sequences, r_current_status, r_out, channel_vars>>
    /\ UNCHANGED <<codec_vars, dup_vars, gateway_vars, bridge_vars, framer_vars>>
    /\ UNCHANGED <<refresh_vars, wrap_vars, input_vars, proc_vars, once_vars, token_vars, crypto_vars>>

\* unit.py line 148: the main loop's call of check_ack
UnitCheckAck ==
    /\ u_pc = "check_ack"
    /\ LET packet == IF u_inbox = <<>> THEN <<>> ELSE Head(u_inbox)
           res == check_ack(waiting_for_ack, packet, u_now, last_retry_time, retry_count)
       IN  /\ waiting_for_ack' = res.waiting_for_ack
           /\ retry_count' = res.retry_count
           /\ last_retry_time' = res.last_retry_time
           /\ u_inbox' = IF res.received /\ u_inbox /= <<>> THEN Tail(u_inbox) ELSE u_inbox
           /\ IF res.resend
              THEN /\ r_inbox' \in Deliveries(r_inbox, last_message)
                   /\ tx_count' = tx_count + 1
                   /\ u_last_tx' = [kind |-> "retransmit", text |-> last_message]
              ELSE UNCHANGED <<r_inbox, tx_count, u_last_tx>>
           /\ ack_heard' =
                IF res.received /\ IsAck(packet) /\ ~res.waiting_for_ack
                THEN IF AckSeq(packet).ok /\ AckSeq(packet).val = FrameSeq(last_message)
                     THEN "matching" ELSE "foreign"
                ELSE ack_heard
    /\ u_pc' = "rest"
    /\ UNCHANGED <<u_now, u_current_status, sequence_number, last_message, last_send_time,
                   sent_text>>
    /\ UNCHANGED <<last_sequences, r_current_status, r_out, channel_vars>>
    /\ UNCHANGED <<codec_vars, dup_vars, gateway_vars, bridge_vars, framer_vars>>
    /\ UNCHANGED <<refresh_vars, wrap_vars, input_vars, proc_vars, once_vars, token_vars, crypto_vars>>

\* the status a finished press of button A leads to (unit.py lines 159-174)
AfterPress(press, status) ==
    IF press = "long"
    THEN IF status = STATUS_OFF THEN STATUS_AVL ELSE STATUS_OFF
    ELSE IF status = STATUS_OFF THEN status
    ELSE IF status = STATUS_AVL THEN STATUS_ERT ELSE STATUS_AVL

\* unit.py lines 150-199: the rest of one pass of the main loop. press says
\* whether a press of button A ended in this pass and how long it was held.
UnitLoopRest ==
    /\ u_pc = "rest"
    /\ \E press \in {"none", "short", "long"} :
          /\ press /= "none" => sequence_number < MaxSends
          /\ u_now < MaxTime
          /\ u_current_status' = IF press = "none" THEN u_current_status
                                 ELSE AfterPress(press, u_current_status)
          /\ IF press = "long" \/ (press = "short" /\ u_current_status /= STATUS_OFF)
             THEN /\ send_secure(MSG_FORMAT(UNIT_ID, GPS_LAT, GPS_LON, u_current_status'))
                  /\ last_send_time' = u_now
             ELSE IF u_now - last_send_time > SEND_INTERVAL
             THEN /\ send_secure(MSG_FORMAT(UNIT_ID, GPS_LAT, GPS_LON, u_current_status'))
                  /\ last_send_time' = u_now
             ELSE UNCHANGED <<sequence_number, r_inbox, last_message, waiting_for_ack,
                              retry_count, last_retry_time, last_send_time, seen_vars>>
          /\ \E elapsed \in LoopTimes :
                /\ u_now + elapsed <= MaxTime
                /\ u_now' = u_now + elapsed
    /\ u_pc' = "check_ack"
    /\ UNCHANGED <<u_inbox>>
    /\ UNCHANGED <<last_sequences, r_current_status, r_out, channel_vars>>
    /\ UNCHANGED <<codec_vars, dup_vars, gateway_vars, bridge_vars, framer_vars>>
    /\ UNCHANGED <<refresh_vars, wrap_vars, input_vars, proc_vars, once_vars, token_vars, crypto_vars>>

-----------------------------------------------------------------------------
\* relay.py: the receiver.

\* Python float(text) succeeds: the decimal forms (sign, digits, one point)
FloatOk(s) ==
    LET t == Strip(s)
        body == IF t /= <<>> /\ Head(t) \in {"+", "-"} THEN Tail(t) ELSE t
        parts == Split(body, ".")
    IN  /\ Len(parts) \in {1, 2}
        /\ \A k \in 1..Len(parts) : \A i \in 1..Len(parts[k]) : parts[k][i] \in DigitChars
        /\ \E k \in 1..Len(parts) : parts[k] /= <<>>

\* relay.py parse_unit_data; ok = FALSE stands for None
parse_unit_data(data) ==
    LET none == [ok |-> FALSE, call_sign |-> <<>>, status |-> <<>>]
    IN  IF ~StartsWith(data, UNIT_PREFIX) THEN none
        ELSE LET content == SubSeq(data, Len(UNIT_PREFIX) + 1, Len(data))
                 parts == Split(content, ",")
             IN  IF Len(parts) >= 4 /\ FloatOk(parts[2]) /\ FloatOk(parts[3])
                 THEN [ok |-> TRUE, call_sign |-> parts[1], status |-> parts[4]]
                 ELSE none

\* is_duplicate that stores a sender's sequence only the first time
is_duplicate_first_only(sequences, call_sign, seq) ==
    IF call_sign \in DOMAIN sequences
    THEN [dup |-> sequences[call_sign] = seq, last_sequences |-> sequences]
    ELSE [dup |-> FALSE,
          last_sequences |-> [c \in DOMAIN sequences \cup {call_sign} |->
                                 IF c = call_sign THEN seq ELSE sequences[c]]]

\* is_duplicate whose store keeps the latest sender only
is_duplicate_latest_only(sequences, call_sign, seq) ==
    IF call_sign \in DOMAIN sequences /\ sequences[call_sign] = seq
    THEN [dup |-> TRUE, last_sequences |-> sequences]
    ELSE [dup |-> FALSE, last_sequences |-> [c \in {call_sign} |-> seq]]

\* relay.py is_duplicate: its result and last_sequences afterwards
is_duplicate(sequences, call_sign, seq) ==
    IF call_sign \in DOMAIN sequences /\ sequences[call_sign] = seq
    THEN [dup |-> TRUE, last_sequences |-> sequences]
    ELSE [dup |-> FALSE,
          last_sequences |-> [c \in DOMAIN sequences \cup {call_sign} |->
                                 IF c = call_sign THEN seq ELSE sequences[c]]]

\* relay.py send_ack: the text put on the air
send_ack(seq) == ACK_PREFIX \o Str(seq)

\* Python text[:n]
Prefix(s, n) == SubSeq(s, 1, IF Len(s) < n THEN Len(s) ELSE n)

REJECT_PREFIX == <<"R", "E", "J", "E", "C", "T", ":">>

\* "REJECT:{}:{}".format(error, packet[:30])
RejectLine(error, packet) ==
    REJECT_PREFIX \o [i \in 1..Len(error) |-> error[i]] \o <<":">> \o Prefix(packet, 30)

ErrorText(error) ==
    CASE error = "FORMAT" -> <<"F", "O", "R", "M", "A", "T">>
      [] error = "PARSE" -> <<"P", "A", "R", "S", "E">>
      [] error = "CRC" -> <<"C", "R", "C">>
      [] error = "SIG" -> <<"S", "I", "G">>

DUP_TEXT == <<"D", "U", "P">>

NoOutput == [acks |-> <<>>, prints |-> <<>>]

\* the relay's loop body acknowledging only what it forwards
relay_handle_ack_fresh_only(packet, sequences, status) ==
    LET quiet == [acks |-> <<>>, prints |-> <<>>, last_sequences |-> sequences,
                  current_status |-> status]
        parsed == parse_secure_message(packet)
        unit_data == parse_unit_data(parsed.data)
        observed == is_duplicate(sequences, unit_data.call_sign, parsed.seq)
    IN  IF packet = <<>> \/ StartsWith(packet, ACK_PREFIX) THEN quiet
        ELSE IF parsed.error /= "OK"
        THEN [quiet EXCEPT !.prints = <<RejectLine(ErrorText(parsed.error), packet)>>]
        ELSE IF ~unit_data.ok THEN quiet
        ELSE IF observed.dup
        THEN [quiet EXCEPT !.prints = <<REJECT_PREFIX \o DUP_TEXT \o <<":">> \o unit_data.call_sign>>]
        ELSE [acks |-> <<send_ack(parsed.seq)>>,
              prints |-> <<parsed.data>>,
              last_sequences |-> observed.last_sequences,
              current_status |-> unit_data.status]

\* the relay's loop body forwarding the payload of a repeated frame as well
relay_handle_forward_dup(packet, sequences, status) ==
    LET quiet == [acks |-> <<>>, prints |-> <<>>, last_sequences |-> sequences,
                  current_status |-> status]
        parsed == parse_secure_message(packet)
        unit_data == parse_unit_data(parsed.data)
        observed == is_duplicate(sequences, unit_data.call_sign, parsed.seq)
    IN  IF packet = <<>> \/ StartsWith(packet, ACK_PREFIX) THEN quiet
        ELSE IF parsed.error /= "OK"
        THEN [quiet EXCEPT !.prints = <<RejectLine(ErrorText(parsed.error), packet)>>]
        ELSE IF ~unit_data.ok THEN quiet
        ELSE IF observed.dup
        THEN [quiet EXCEPT !.acks = <<send_ack(parsed.seq)>>,
                           !.prints = <<REJECT_PREFIX \o DUP_TEXT \o <<":">> \o unit_data.call_sign,
                                        parsed.data>>]
        ELSE [acks |-> <<send_ack(parsed.seq)>>,
              prints |-> <<parsed.data>>,
              last_sequences |-> observed.last_sequences,
              current_status |-> unit_data.status]

\* the relay's loop body printing the whole rejected frame in its diagnostic
relay_handle_reject_whole(packet, sequences, status) ==
    LET quiet == [acks |-> <<>>, prints |-> <<>>, last_sequences |-> sequences,
                  current_status |-> status]
        parsed == parse_secure_message(packet)
        unit_data == parse_unit_data(parsed.data)
        observed == is_duplicate(sequences, unit_data.call_sign, parsed.seq)
    IN  IF packet = <<>> \/ StartsWith(packet, ACK_PREFIX) THEN quiet
        ELSE IF parsed.error /= "OK"
        THEN [quiet EXCEPT !.prints =
                 <<REJECT_PREFIX \o ErrorText(parsed.error) \o <<":">> \o packet>>]
        ELSE IF ~unit_data.ok THEN quiet
        ELSE IF observed.dup
        THEN [quiet EXCEPT !.acks = <<send_ack(parsed.seq)>>,
                           !.prints = <<REJECT_PREFIX \o DUP_TEXT \o <<":">> \o unit_data.call_sign>>]
        ELSE [acks |-> <<send_ack(parsed.seq)>>,
              prints |-> <<parsed.data>>,
              last_sequences |-> observed.last_sequences,
              current_status |-> unit_data.status]

\* relay.py lines 129-163: what one pass of the loop does with the packet
\* radio.receive() returned (<<>> for None): the ACKs sent, the lines printed
\* to the PC, last_sequences and current_status afterwards
relay_handle(packet, sequences, status) ==
    LET quiet == [acks |-> <<>>, prints |-> <<>>, last_sequences |-> sequences,
                  current_status |-> status]
        parsed == parse_secure_message(packet)
        unit_data == parse_unit_data(parsed.data)
        observed == is_duplicate(sequences, unit_data.call_sign, parsed.seq)
    IN  IF packet = <<>> \/ StartsWith(packet, ACK_PREFIX) THEN quiet
        ELSE IF parsed.error /= "OK"
        THEN [quiet EXCEPT !.prints = <<RejectLine(ErrorText(parsed.error), packet)>>]
        ELSE IF ~unit_data.ok THEN quiet
        ELSE IF observed.dup
        THEN [quiet EXCEPT !.acks = <<send_ack(parsed.seq)>>,
                           !.prints = <<REJECT_PREFIX \o DUP_TEXT \o <<":">> \o unit_data.call_sign>>]
        ELSE [acks |-> <<send_ack(parsed.seq)>>,
              prints |-> <<parsed.data>>,
              last_sequences |-> observed.last_sequences,
              current_status |-> unit_data.status]

RECURSIVE DeliverAll(_, _)
\* the queues a listener may end with after several radio.send calls
DeliverAll(queue, packets) ==
    IF packets = <<>> THEN {queue}
    ELSE UNION {DeliverAll(q, Tail(packets)) : q \in Deliveries(queue, Head(packets))}

\* relay.py lines 128-165: one pass of the loop that finds a packet
RelayStep ==
    /\ r_inbox /= <<>>
    /\ LET res == relay_handle(Head(r_inbox), last_sequences, r_current_status)
       IN  /\ r_inbox' = Tail(r_inbox)
           /\ last_sequences' = res.last_sequences
           /\ r_current_status' = res.current_status
           /\ r_out' = [acks |-> res.acks, prints |-> res.prints]
           /\ u_inbox' \in DeliverAll(u_inbox, res.acks)
    /\ UNCHANGED <<u_pc, u_now, u_current_status, sequence_number, waiting_for_ack,
                   last_message, retry_count, last_retry_time, last_send_time>>
    /\ UNCHANGED <<seen_vars, channel_vars>>
    /\ UNCHANGED <<codec_vars, dup_vars, gateway_vars, bridge_vars, framer_vars>>
    /\ UNCHANGED <<refresh_vars, wrap_vars, input_vars, proc_vars, token_vars, crypto_vars>>

\* the pass where no record of the forwarded reports is kept
RelayLoop == RelayStep /\ UNCHANGED once_vars

\* the same pass with what it forwards to the PC written down
OnceRelayLoop ==
    /\ RelayStep
    /\ LET parsed == parse_secure_message(Head(r_inbox))
       IN  r_forwarded' =
              IF /\ parsed.error = "OK"
                 /\ \E i \in 1..Len(r_out'.prints) : r_out'.prints[i] = parsed.data
              THEN Append(r_forwarded, [data |-> parsed.data, seq |-> parsed.seq])
              ELSE r_forwarded

\* one unit and the relay, nobody else on the channel
OnceNext ==
    \/ UnitStart
    \/ UnitCheckAck
    \/ UnitLoopRest
    \/ OnceRelayLoop

-----------------------------------------------------------------------------
\* The rest of the channel: a second unit and other senders.

OTHER_ID == <<"V", "S", "A", "V", "0", "2">>

\* a second unit running unit.py sends a report: every listener may hear it
OtherUnitSend ==
    /\ o_sequence_number + foreign_sent < MaxForeign
    /\ LET built == build_secure_message(
                        MSG_FORMAT(OTHER_ID, GPS_LAT, GPS_LON, STATUS_ERT), o_sequence_number)
       IN  /\ o_sequence_number' = built.next_sequence_number
           /\ r_inbox' \in Deliveries(r_inbox, built.message)
           /\ u_inbox' \in Deliveries(u_inbox, built.message)
    /\ UNCHANGED <<u_pc, u_now, u_current_status, sequence_number, waiting_for_ack,
                   last_message, retry_count, last_retry_time, last_send_time>>
    /\ UNCHANGED <<seen_vars, last_sequences, r_current_status, r_out, foreign_sent>>
    /\ UNCHANGED <<codec_vars, dup_vars, gateway_vars, bridge_vars, framer_vars>>
    /\ UNCHANGED <<refresh_vars, wrap_vars, input_vars, proc_vars, once_vars, token_vars, crypto_vars>>

STA_PAYLOAD == <<"S", "T", "A", ":", "M", "B", "0", "0", "1", ",", "U", "W", "Y">>

\* the damaged frame 0|STA:MB001,UWY|999|999
CORRUPT_FRAME ==
    <<"0", "|">> \o STA_PAYLOAD \o <<"|", "9", "9", "9", "|", "9", "9", "9">>

\* what other senders put on the air: a status frame of the emitting bridge
\* and a damaged frame
ForeignFrames == {build_packet(STA_PAYLOAD, 0).packet, CORRUPT_FRAME}

\* another sender's frame reaches the listeners
ForeignSend ==
    /\ o_sequence_number + foreign_sent < MaxForeign
    /\ \E frame \in ForeignFrames :
          /\ r_inbox' \in Deliveries(r_inbox, frame)
          /\ u_inbox' \in Deliveries(u_inbox, frame)
    /\ foreign_sent' = foreign_sent + 1
    /\ UNCHANGED <<u_pc, u_now, u_current_status, sequence_number, waiting_for_ack,
                   last_message, retry_count, last_retry_time, last_send_time>>
    /\ UNCHANGED <<seen_vars, last_sequences, r_current_status, r_out, o_sequence_number>>
    /\ UNCHANGED <<codec_vars, dup_vars, gateway_vars, bridge_vars, framer_vars>>
    /\ UNCHANGED <<refresh_vars, wrap_vars, input_vars, proc_vars, once_vars, token_vars, crypto_vars>>

\* the empty mapping
NoSequences == [c \in {} |-> 0]

NO_STATUS == <<"N", "o", "n", "e">>

RadioInit ==
    /\ u_pc = "start"
    /\ u_now = 0
    /\ u_current_status = STATUS_AVL
    /\ sequence_number = 0
    /\ waiting_for_ack = FALSE
    /\ last_message = <<>>
    /\ retry_count = 0
    /\ last_retry_time = 0
    /\ last_send_time = 0
    /\ u_inbox = <<>>
    /\ tx_count = 0
    /\ u_last_tx = [kind |-> "none", text |-> <<>>]
    /\ sent_text = <<>>
    /\ ack_heard = "no"
    /\ r_inbox = <<>>
    /\ last_sequences = NoSequences
    /\ r_current_status = NO_STATUS
    /\ r_out = NoOutput
    /\ o_sequence_number = 0
    /\ foreign_sent = 0

RadioNext ==
    \/ UnitStart
    \/ UnitCheckAck
    \/ UnitLoopRest
    \/ RelayLoop
    \/ OtherUnitSend
    \/ ForeignSend

-----------------------------------------------------------------------------
\* Relay harness: the relay alone, hearing frames from any sender.

\* a report frame as unit.py builds it
UnitFrame(call_sign, seq) ==
    build_secure_message(MSG_FORMAT(call_sign, GPS_LAT, GPS_LON, STATUS_AVL), seq).message

\* a report frame whose sequence field was changed on the air (0 to 90)
TAMPERED_FRAME == <<"9">> \o UnitFrame(UNIT_ID, 0)

\* the frames on the air: reports of two units at several sequences, a
\* status frame of the emitting bridge, damaged frames (a bad checksum, a
\* changed sequence, a text without fields), an acknowledgment
RelayFrames ==
    {UnitFrame(UNIT_ID, 0), UnitFrame(UNIT_ID, 1), UnitFrame(UNIT_ID, 255),
     UnitFrame(OTHER_ID, 0), build_packet(STA_PAYLOAD, 0).packet, CORRUPT_FRAME,
     TAMPERED_FRAME, STA_PAYLOAD, send_ack(0)}

\* relay.py line 129: the radio queues a frame some sender put on the air
RelayHear ==
    /\ foreign_sent < MaxHeard
    /\ \E frame \in RelayFrames : r_inbox' \in Deliveries(r_inbox, frame)
    /\ foreign_sent' = foreign_sent + 1
    /\ UNCHANGED <<unit_vars, seen_vars, last_sequences, r_current_status, r_out,
                   o_sequence_number>>
    /\ UNCHANGED <<codec_vars, dup_vars, gateway_vars, bridge_vars, framer_vars>>
    /\ UNCHANGED <<refresh_vars, wrap_vars, input_vars, proc_vars, once_vars, token_vars, crypto_vars>>

RelayNext ==
    \/ RelayHear
    \/ RelayLoop

-----------------------------------------------------------------------------
\* Duplicate tracker harness: is_duplicate called for any sender and sequence.

Senders == {UNIT_ID, OTHER_ID}

ObservedSeqs == {7, 9, 255}

DupInit == d_hist = <<>>

DupObserve ==
    /\ Len(d_hist) < MaxObs
    /\ \E call_sign \in Senders, seq \in ObservedSeqs :
          LET res == is_duplicate(last_sequences, call_sign, seq)
          IN  /\ last_sequences' = res.last_sequences
              /\ d_hist' = Append(d_hist, [call_sign |-> call_sign, seq |-> seq,
                                           dup |-> res.dup])
    /\ UNCHANGED <<unit_vars, seen_vars, r_inbox, r_current_status, r_out, channel_vars>>
    /\ UNCHANGED <<codec_vars, gateway_vars, bridge_vars, framer_vars>>
    /\ UNCHANGED <<refresh_vars, wrap_vars, input_vars, proc_vars, once_vars, token_vars, crypto_vars>>

DupNext == DupObserve

-----------------------------------------------------------------------------
\* bridge_receiver.py: the gateway between the serial line and the backend.

\* Python str.upper() and str.lower() on one character
UpperChar(c) == IF Ord(c) >= 97 /\ Ord(c) <= 122 THEN Ascii[Ord(c) - 63] ELSE c

LowerChar(c) == IF Ord(c) >= 65 /\ Ord(c) <= 90 THEN Ascii[Ord(c) + 1] ELSE c

Upper(s) == [i \in 1..Len(s) |-> UpperChar(s[i])]

Lower(s) == [i \in 1..Len(s) |-> LowerChar(s[i])]

\* Python text[n:]
Drop(s, n) == SubSeq(s, n + 1, Len(s))

STATUS_MAP ==
    [code \in {<<"A", "V", "L">>, <<"U", "W", "Y">>, <<"O", "N", "S">>,
               <<"U", "N", "A">>, <<"O", "F", "F">>} |->
        CASE code = <<"A", "V", "L">> -> <<"a", "v", "a", "i", "l", "a", "b", "l", "e">>
          [] code = <<"U", "W", "Y">> -> <<"u", "n", "d", "e", "r", "_", "w", "a", "y">>
          [] code = <<"O", "N", "S">> -> <<"o", "n", "_", "s", "i", "t", "e">>
          [] code = <<"U", "N", "A">> ->
                <<"u", "n", "a", "v", "a", "i", "l", "a", "b", "l", "e">>
          [] code = <<"O", "F", "F">> -> <<"o", "f", "f", "l", "i", "n", "e">>]

\* bridge_receiver.py normalize_status
normalize_status(status) ==
    IF status = <<>> THEN STATUS_MAP[<<"A", "V", "L">>]
    ELSE IF Upper(Strip(status)) \in DOMAIN STATUS_MAP
    THEN STATUS_MAP[Upper(Strip(status))]
    ELSE Lower(status)

\* bridge_receiver.py extract_payload
extract_payload(message) ==
    IF Len(Split(message, "|")) >= 2 THEN Split(message, "|")[2] ELSE message

GPS_PREFIX == <<"G", "P", "S", ":">>

STA_PREFIX == <<"S", "T", "A", ":">>

MBIT_PREFIX == <<"M", "B", "I", "T", ":">>

\* bridge_receiver.py parse_gps_message; ok = FALSE stands for None
parse_gps_message(message) ==
    LET none == [ok |-> FALSE, microbit_id |-> <<>>, lat |-> <<>>, lon |-> <<>>]
        parts == Split(Drop(message, Len(GPS_PREFIX)), ",")
    IN  IF ~StartsWith(message, GPS_PREFIX) THEN none
        ELSE IF Len(parts) >= 3 /\ FloatOk(parts[2]) /\ FloatOk(parts[3])
        THEN [ok |-> TRUE, microbit_id |-> Strip(parts[1]),
              lat |-> Strip(parts[2]), lon |-> Strip(parts[3])]
        ELSE none

\* bridge_receiver.py parse_sta_message and parse_mbit_message, which differ
\* in the prefix only
parse_status_message(message, prefix) ==
    LET none == [ok |-> FALSE, microbit_id |-> <<>>, status |-> <<>>]
        parts == Split(Drop(message, Len(prefix)), ",")
    IN  IF ~StartsWith(message, prefix) THEN none
        ELSE IF Len(parts) >= 2
        THEN [ok |-> TRUE, microbit_id |-> Strip(parts[1]), status |-> Strip(parts[2])]
        ELSE none

parse_sta_message(message) == parse_status_message(message, STA_PREFIX)

parse_mbit_message(message) == parse_status_message(message, MBIT_PREFIX)

\* the empty dictionary
NoEntries == [k \in {} |-> <<>>]

\* Python None where a text may stand
NONE == <<"<None>">>

\* dict.get(key)
Get(dict, key) == IF key \in DOMAIN dict THEN dict[key] ELSE NONE

\* dict[key] = value
Put(dict, key, value) ==
    [k \in DOMAIN dict \cup {key} |-> IF k = key THEN value ELSE dict[k]]

MB001 == <<"M", "B", "0", "0", "1">>

MB002 == <<"M", "B", "0", "0", "2">>

UNIT_1 == <<"u", "1">>

UNIT_2 == <<"u", "2">>

\* what GET /v1/units may answer: the units with their microbit_id and id
\* (<<>> for a missing value)
UnitsResponses ==
    { <<>>,
      <<[microbit_id |-> MB001, id |-> UNIT_1]>>,
      <<[microbit_id |-> MB001, id |-> UNIT_1], [microbit_id |-> MB002, id |-> UNIT_2]>>,
      <<[microbit_id |-> <<>>, id |-> UNIT_2]>> }

RECURSIVE mapping_of(_, _)
\* the loop of load_microbit_cache over the units of the response
mapping_of(mapping, units) ==
    IF units = <<>> THEN mapping
    ELSE mapping_of(IF Head(units).microbit_id /= <<>> /\ Head(units).id /= <<>>
                    THEN Put(mapping, Head(units).microbit_id, Head(units).id)
                    ELSE mapping,
                    Tail(units))

\* bridge_receiver.py load_microbit_cache (its first result): the request
\* fails, or answers with the units
load_microbit_cache(failed, units) ==
    IF failed THEN NoEntries ELSE mapping_of(NoEntries, units)

\* process_line that does not consult last_statuses before the status write
process_line_always_patch(line, mapping, statuses, backend_ok) ==
    LET payload == extract_payload(line)
        gps == parse_gps_message(payload)
        sta == parse_sta_message(payload)
        mbit == parse_mbit_message(payload)
        report == IF sta.ok THEN sta ELSE mbit
        unit_id == Get(mapping, IF gps.ok THEN gps.microbit_id ELSE report.microbit_id)
    IN  IF gps.ok
        THEN [calls |-> IF unit_id \notin {NONE, <<>>}
                        THEN <<[kind |-> "location", unit_id |-> unit_id,
                                body |-> <<gps.lat, gps.lon>>, ok |-> backend_ok,
                                line |-> line]>>
                        ELSE <<>>,
              last_statuses |-> statuses]
        ELSE IF report.ok /\ unit_id \notin {NONE, <<>>}
        THEN [calls |-> <<[kind |-> "status", unit_id |-> unit_id,
                           body |-> normalize_status(report.status), ok |-> backend_ok,
                           line |-> line]>>,
              last_statuses |-> IF backend_ok
                                THEN Put(statuses, report.microbit_id, report.status)
                                ELSE statuses]
        ELSE [calls |-> <<>>, last_statuses |-> statuses]

\* process_line that repeats at once a status update the backend refused
process_line_retry_status(line, mapping, statuses, backend_ok) ==
    LET payload == extract_payload(line)
        gps == parse_gps_message(payload)
        sta == parse_sta_message(payload)
        mbit == parse_mbit_message(payload)
        report == IF sta.ok THEN sta ELSE mbit
        unit_id == Get(mapping, IF gps.ok THEN gps.microbit_id ELSE report.microbit_id)
        update == [kind |-> "status", unit_id |-> unit_id,
                   body |-> normalize_status(report.status), ok |-> backend_ok,
                   line |-> line]
    IN  IF gps.ok
        THEN [calls |-> IF unit_id \notin {NONE, <<>>}
                        THEN <<[kind |-> "location", unit_id |-> unit_id,
                                body |-> <<gps.lat, gps.lon>>, ok |-> backend_ok,
                                line |-> line]>>
                        ELSE <<>>,
              last_statuses |-> statuses]
        ELSE IF /\ report.ok
                /\ unit_id \notin {NONE, <<>>}
                /\ Get(statuses, report.microbit_id) /= report.status
        THEN [calls |-> IF backend_ok THEN <<update>> ELSE <<update, update>>,
              last_statuses |-> IF backend_ok
                                THEN Put(statuses, report.microbit_id, report.status)
                                ELSE statuses]
        ELSE [calls |-> <<>>, last_statuses |-> statuses]

\* process_line that repeats a location update the backend refused
process_line_retry_location(line, mapping, statuses, backend_ok) ==
    LET payload == extract_payload(line)
        gps == parse_gps_message(payload)
        sta == parse_sta_message(payload)
        mbit == parse_mbit_message(payload)
        report == IF sta.ok THEN sta ELSE mbit
        unit_id == Get(mapping, IF gps.ok THEN gps.microbit_id ELSE report.microbit_id)
        update == [kind |-> "location", unit_id |-> unit_id,
                   body |-> <<gps.lat, gps.lon>>, ok |-> backend_ok, line |-> line]
    IN  IF gps.ok
        THEN [calls |-> IF unit_id \in {NONE, <<>>} THEN <<>>
                        ELSE IF backend_ok THEN <<update>>
                        ELSE <<update, update>>,
              last_statuses |-> statuses]
        ELSE IF /\ report.ok
                /\ unit_id \notin {NONE, <<>>}
                /\ Get(statuses, report.microbit_id) /= report.status
        THEN [calls |-> <<[kind |-> "status", unit_id |-> unit_id,
                           body |-> normalize_status(report.status), ok |-> backend_ok,
                           line |-> line]>>,
              last_statuses |-> IF backend_ok
                                THEN Put(statuses, report.microbit_id, report.status)
                                ELSE statuses]
        ELSE [calls |-> <<>>, last_statuses |-> statuses]

\* bridge_receiver.py process_line with handle_gps_message, handle_sta_message
\* and handle_mbit_message: the backend writes it makes, backend_ok being what
\* the backend answers, and last_statuses afterwards
process_line(line, mapping, statuses, backend_ok) ==
    LET payload == extract_payload(line)
        gps == parse_gps_message(payload)
        sta == parse_sta_message(payload)
        mbit == parse_mbit_message(payload)
        report == IF sta.ok THEN sta ELSE mbit
        unit_id == Get(mapping, IF gps.ok THEN gps.microbit_id ELSE report.microbit_id)
    IN  IF gps.ok
        THEN [calls |-> IF unit_id \notin {NONE, <<>>}
                        THEN <<[kind |-> "location", unit_id |-> unit_id,
                                body |-> <<gps.lat, gps.lon>>, ok |-> backend_ok,
                                line |-> line]>>
                        ELSE <<>>,
              last_statuses |-> statuses]
        ELSE IF /\ report.ok
                /\ unit_id \notin {NONE, <<>>}
                /\ Get(statuses, report.microbit_id) /= report.status
        THEN [calls |-> <<[kind |-> "status", unit_id |-> unit_id,
                           body |-> normalize_status(report.status), ok |-> backend_ok,
                           line |-> line]>>,
              last_statuses |-> IF backend_ok
                                THEN Put(statuses, report.microbit_id, report.status)
                                ELSE statuses]
        ELSE [calls |-> <<>>, last_statuses |-> statuses]

\* microbit_to_unit.get(microbit_id) as the handler of the line makes it;
\* NONE as well for a line no handler takes
lookup(line, mapping) ==
    LET payload == extract_payload(line)
        gps == parse_gps_message(payload)
        sta == parse_sta_message(payload)
        mbit == parse_mbit_message(payload)
    IN  IF gps.ok THEN Get(mapping, gps.microbit_id)
        ELSE IF sta.ok THEN Get(mapping, sta.microbit_id)
        ELSE IF mbit.ok THEN Get(mapping, mbit.microbit_id)
        ELSE NONE

GPS_PAYLOAD ==
    <<"G", "P", "S", ":", "M", "B", "0", "0", "1", ",", "4", "5", ".", "7", "6", ",",
      "4", ".", "8", "9">>

STA_OTHER_PAYLOAD == <<"S", "T", "A", ":", "M", "B", "0", "0", "2", ",", "a", "v", "l">>

MBIT_PAYLOAD == <<"M", "B", "I", "T", ":", "M", "B", "0", "0", "1", ",", "X", "Y", "Z">>

\* lines the serial port may deliver: frames as the emitting bridge builds
\* them, the damaged frame, a bare payload, a diagnostic of the relay
GatewayLines ==
    { build_packet(STA_PAYLOAD, 0).packet,
      build_packet(GPS_PAYLOAD, 1).packet,
      build_packet(STA_OTHER_PAYLOAD, 2).packet,
      build_packet(MBIT_PAYLOAD, 3).packet,
      CORRUPT_FRAME,
      STA_PAYLOAD,
      RejectLine(ErrorText("CRC"), CORRUPT_FRAME) }

\* bridge_receiver.py main lines 309-311: the mapping is loaded once before
\* the loop starts; run_main_loop starts with no known status
GatewayInit ==
    /\ \E failed \in BOOLEAN, units \in UnitsResponses :
          microbit_to_unit = load_microbit_cache(failed, units)
    /\ last_statuses = NoEntries
    /\ g_calls = <<>>
    /\ g_lines = 0
    /\ g_log = <<>>
    /\ g_refreshes = 0

GatewayIdle ==
    /\ microbit_to_unit = NoEntries
    /\ last_statuses = NoEntries
    /\ g_calls = <<>>
    /\ g_lines = 0
    /\ g_log = <<>>
    /\ g_refreshes = 0

\* run_main_loop lines 271-277: the periodic refresh of the mapping
GatewayRefresh ==
    /\ g_refreshes < MaxRefresh
    /\ \E failed \in BOOLEAN, units \in UnitsResponses :
          microbit_to_unit' = load_microbit_cache(failed, units)
    /\ g_refreshes' = g_refreshes + 1
    /\ UNCHANGED <<last_statuses, g_calls, g_lines, g_log>>
    /\ UNCHANGED <<codec_vars, radio_vars, dup_vars, bridge_vars, framer_vars>>
    /\ UNCHANGED <<refresh_vars, wrap_vars, input_vars, proc_vars, once_vars, token_vars, crypto_vars>>

\* run_main_loop lines 284-289: one complete, non-empty line is processed
GatewayProcessLine ==
    /\ g_lines < MaxLines
    /\ \E line \in GatewayLines, backend_ok \in BOOLEAN :
          LET res == process_line(line, microbit_to_unit, last_statuses, backend_ok)
          IN  /\ last_statuses' = res.last_statuses
              /\ g_calls' = g_calls \o res.calls
              /\ g_log' = Append(g_log, [line |-> line,
                                         unit_id |-> lookup(line, microbit_to_unit),
                                         calls |-> res.calls])
    /\ g_lines' = g_lines + 1
    /\ UNCHANGED <<microbit_to_unit, g_refreshes>>
    /\ UNCHANGED <<codec_vars, radio_vars, dup_vars, bridge_vars, framer_vars>>
    /\ UNCHANGED <<refresh_vars, wrap_vars, input_vars, proc_vars, once_vars, token_vars, crypto_vars>>

GatewayNext ==
    \/ GatewayRefresh
    \/ GatewayProcessLine

-----------------------------------------------------------------------------
\* bridge.py: the gateway that reads the relay's lines.

STATUS_ONS == <<"O", "N", "S">>

STATUS_MNT == <<"M", "N", "T">>

STATUS_UWY == <<"U", "W", "Y">>

AVAILABLE == <<"a", "v", "a", "i", "l", "a", "b", "l", "e">>

\* bridge.py STATUS_MAP
bridge_STATUS_MAP ==
    [code \in {STATUS_AVL, STATUS_ERT, STATUS_ONS, STATUS_MNT, STATUS_OFF} |->
        CASE code = STATUS_AVL -> AVAILABLE
          [] code = STATUS_ERT -> <<"e", "n", "_", "r", "o", "u", "t", "e">>
          [] code = STATUS_ONS -> <<"o", "n", "_", "s", "i", "t", "e">>
          [] code = STATUS_MNT ->
                <<"m", "a", "i", "n", "t", "e", "n", "a", "n", "c", "e">>
          [] code = STATUS_OFF -> <<"o", "f", "f", "l", "i", "n", "e">>]

\* STATUS_MAP.get(status, "available") of bridge.py
api_status(status) ==
    IF status \in DOMAIN bridge_STATUS_MAP THEN bridge_STATUS_MAP[status] ELSE AVAILABLE

\* bridge.py parse_unit_message; ok = FALSE stands for None
parse_unit_message(message) ==
    LET none == [ok |-> FALSE, call_sign |-> <<>>, lat |-> <<>>, lon |-> <<>>,
                 status |-> <<>>]
        parts == Split(Drop(message, Len(UNIT_PREFIX)), ",")
    IN  IF ~StartsWith(message, UNIT_PREFIX) THEN none
        ELSE IF Len(parts) >= 4 /\ FloatOk(parts[2]) /\ FloatOk(parts[3])
        THEN [ok |-> TRUE, call_sign |-> parts[1], lat |-> Strip(parts[2]),
              lon |-> Strip(parts[3]), status |-> Strip(parts[4])]
        ELSE none

\* the identifier the backend gives the unit of a call sign
BackendId(call_sign) == IF call_sign = UNIT_ID THEN UNIT_1 ELSE UNIT_2

\* what the backend may answer while one line is processed: GET /v1/units
\* fails, lists the unit or does not list it; each write succeeds or fails
BridgeAnswers ==
    [get : {"fail", "found", "absent"}, create : BOOLEAN, status : BOOLEAN,
     location : BOOLEAN]

\* a backend request of bridge.py
Request(kind, unit_id, body, ok) ==
    [kind |-> kind, unit_id |-> unit_id, body |-> body, ok |-> ok]

\* bridge.py get_or_create_unit with create_new_unit: the identifier (NONE
\* for None), the requests made (the GET with the identifier it found),
\* known_units afterwards
get_or_create_unit(call_sign, lat, lon, status, known, answers) ==
    IF call_sign \in DOMAIN known
    THEN [unit_id |-> known[call_sign], calls |-> <<>>, known_units |-> known]
    ELSE IF answers.get = "fail"
    THEN [unit_id |-> NONE, calls |-> <<Request("get", NONE, <<>>, FALSE)>>,
          known_units |-> known]
    ELSE IF answers.get = "found"
    THEN [unit_id |-> BackendId(call_sign),
          calls |-> <<Request("get", BackendId(call_sign), <<>>, TRUE)>>,
          known_units |-> Put(known, call_sign, BackendId(call_sign))]
    ELSE [unit_id |-> IF answers.create THEN BackendId(call_sign) ELSE NONE,
          calls |-> <<Request("get", NONE, <<>>, TRUE),
                      Request("create", <<>>, <<call_sign, api_status(status), lat, lon>>,
                              answers.create)>>,
          known_units |-> IF answers.create
                          THEN Put(known, call_sign, BackendId(call_sign))
                          ELSE known]

\* bridge.py process_unit_data: the requests made, known_units and
\* last_statuses afterwards
process_unit_data(call_sign, lat, lon, status, known, statuses, answers) ==
    LET unit == get_or_create_unit(call_sign, lat, lon, status, known, answers)
        unchanged == call_sign \in DOMAIN statuses /\ statuses[call_sign] = status
        patch == Request("status", unit.unit_id, api_status(status), answers.status)
        location == Request("location", unit.unit_id, <<lat, lon>>, answers.location)
    IN  IF unit.unit_id = NONE
        THEN [calls |-> unit.calls, known_units |-> unit.known_units,
              last_statuses |-> statuses]
        ELSE [calls |-> unit.calls \o (IF unchanged THEN <<>> ELSE <<patch>>)
                           \o <<location>>,
              known_units |-> unit.known_units,
              last_statuses |-> IF unchanged THEN statuses
                                ELSE Put(statuses, call_sign, status)]

\* bridge.py process_serial_buffer lines 257-270: what is done with one
\* complete, non-empty line
process_serial_line(line, known, statuses, answers) ==
    LET quiet == [calls |-> <<>>, known_units |-> known, last_statuses |-> statuses]
        unit_data == parse_unit_message(line)
    IN  IF StartsWith(line, REJECT_PREFIX) THEN quiet
        ELSE IF ~unit_data.ok THEN quiet
        ELSE process_unit_data(unit_data.call_sign, unit_data.lat, unit_data.lon,
                               unit_data.status, known, statuses, answers)

\* lines the relay may print: reports of two units in several statuses,
\* diagnostics, and a payload that is no unit report
BridgeLines ==
    { MSG_FORMAT(UNIT_ID, GPS_LAT, GPS_LON, STATUS_AVL),
      MSG_FORMAT(UNIT_ID, GPS_LAT, GPS_LON, STATUS_ERT),
      MSG_FORMAT(UNIT_ID, GPS_LAT, GPS_LON, STATUS_UWY),
      MSG_FORMAT(OTHER_ID, GPS_LAT, GPS_LON, STATUS_AVL),
      REJECT_PREFIX \o DUP_TEXT \o <<":">> \o UNIT_ID,
      RejectLine(ErrorText("CRC"), <<"0", "|">> \o MSG_FORMAT(UNIT_ID, GPS_LAT, GPS_LON, STATUS_OFF)),
      STA_PAYLOAD }

\* bridge.py line 35 and run_bridge_loop line 281: nothing known at the start
BridgeInit ==
    /\ known_units = NoEntries
    /\ b_last_statuses = NoEntries
    /\ b_log = <<>>

\* process_serial_buffer lines 254-270: one complete, non-empty line
BridgeProcessLine ==
    /\ Len(b_log) < MaxBridgeLines
    /\ \E line \in BridgeLines, answers \in BridgeAnswers :
          LET res == process_serial_line(line, known_units, b_last_statuses, answers)
          IN  /\ known_units' = res.known_units
              /\ b_last_statuses' = res.last_statuses
              /\ b_log' = Append(b_log, [line |-> line, calls |-> res.calls])
    /\ UNCHANGED <<codec_vars, radio_vars, dup_vars, gateway_vars, framer_vars>>
    /\ UNCHANGED <<refresh_vars, wrap_vars, input_vars, proc_vars, once_vars, token_vars, crypto_vars>>

BridgeNext == BridgeProcessLine

-----------------------------------------------------------------------------
\* The line framer of bridge_receiver.py run_main_loop (bridge.py frames its
\* input the same way in read_serial_data and process_serial_buffer).

\* the character of an ASCII byte
Chr(b) ==
    IF b = 10 THEN LF ELSE IF b = 13 THEN CR ELSE IF b = 9 THEN TAB ELSE Ascii[b - 31]

RECURSIVE Utf8(_)
\* text.encode('utf-8') for the characters of the model
Utf8(text) ==
    IF text = <<>> THEN <<>>
    ELSE (IF Head(text) = Wide THEN <<226, 129, 129>> ELSE <<Ord(Head(text))>>)
            \o Utf8(Tail(text))

RECURSIVE decode_ignore(_)
\* data.decode('utf-8', errors='ignore') for the bytes of the model (ASCII
\* and the three bytes of U+2041): a byte that is not part of a complete
\* character within data is dropped
decode_ignore(data) ==
    IF data = <<>> THEN <<>>
    ELSE IF Head(data) < 128 THEN <<Chr(Head(data))>> \o decode_ignore(Tail(data))
    ELSE IF Len(data) >= 3 /\ SubSeq(data, 1, 3) = <<226, 129, 129>>
    THEN <<Wide>> \o decode_ignore(Drop(data, 3))
    ELSE decode_ignore(Tail(data))

\* text without one carriage return at its end
rstrip_one_cr(text) ==
    IF text /= <<>> /\ text[Len(text)] = CR THEN SubSeq(text, 1, Len(text) - 1) ELSE text

\* split_lines that removes one trailing carriage return and nothing else
split_lines_one_cr(buffer) ==
    LET parts == Split(buffer, LF)
    IN  [lines |-> [i \in 1..(Len(parts) - 1) |-> rstrip_one_cr(parts[i])],
         buffer |-> parts[Len(parts)]]

\* run_main_loop lines 285-287: the loop "while '\n' in serial_buffer" takes
\* the text before each newline, strips it, and leaves the rest in the buffer
split_lines(buffer) ==
    LET parts == Split(buffer, LF)
    IN  [lines |-> [i \in 1..(Len(parts) - 1) |-> Strip(parts[i])],
         buffer |-> parts[Len(parts)]]

\* line 288, "if line:": the lines handed to process_line
accepted(lines) == SelectSeq(lines, LAMBDA line : line /= <<>>)

\* nothing processed yet in a pass that starts with these statuses
NoneProcessed(statuses) == [calls |-> <<>>, last_statuses |-> statuses, log |-> <<>>]

\* run_main_loop line 289: process_line on one line, added to what the pass
\* has done so far
process_next(done, line, mapping, backend_ok) ==
    LET res == process_line(line, mapping, done.last_statuses, backend_ok)
    IN  [calls |-> done.calls \o res.calls,
         last_statuses |-> res.last_statuses,
         log |-> Append(done.log, [line |-> line, unit_id |-> lookup(line, mapping),
                                   calls |-> res.calls])]

RECURSIVE process_lines_newest_first(_, _, _, _)
\* the lines of one read processed from the last to the first
process_lines_newest_first(lines, mapping, done, backend_ok) ==
    IF lines = <<>> THEN done
    ELSE process_lines_newest_first(SubSeq(lines, 1, Len(lines) - 1), mapping,
                                    process_next(done, lines[Len(lines)], mapping, backend_ok),
                                    backend_ok)

RECURSIVE process_lines(_, _, _, _)
\* run_main_loop lines 285-289: process_line on each line in turn
process_lines(lines, mapping, done, backend_ok) ==
    IF lines = <<>> THEN done
    ELSE process_lines(Tail(lines), mapping,
                       process_next(done, Head(lines), mapping, backend_ok), backend_ok)

STA_MB1 == <<"S", "T", "A", ":", "M", "B", "1", ",", "A", "V", "L">>

\* a line with white space before it and after it
PADDED_LINE == <<" ", "O", "K", TAB, CR, CR, LF>>

GPS_SHORT == <<"G", "P", "S", ":", "M", "B", "0", "0", "1", ",", "1", ",", "2">>

\* what the serial port may deliver: the status line of an unknown device,
\* two reports of a mapped device, a diagnostic with a character outside
\* ASCII, lines ending in CR LF with a blank line and an unfinished line, and
\* a line with white space around it
FramerStreams ==
    { Utf8(STA_MB1 \o <<LF>>),
      Utf8(STA_PAYLOAD \o <<LF>> \o GPS_SHORT \o <<LF>>),
      Utf8(<<"R", "X", ":", Wide, LF>>),
      Utf8(STA_OTHER_PAYLOAD \o <<CR, LF, LF>> \o STA_MB1),
      Utf8(PADDED_LINE) }

\* run_main_loop line 266: the buffer starts empty
FramerInit ==
    /\ f_stream \in FramerStreams
    /\ f_pos = 0
    /\ f_prev = 0
    /\ f_before = [buffer |-> <<>>, lines |-> 0]
    /\ serial_buffer = <<>>

FramerIdle ==
    /\ f_stream = <<>>
    /\ f_pos = 0
    /\ f_prev = 0
    /\ f_before = [buffer |-> <<>>, lines |-> 0]
    /\ serial_buffer = <<>>

\* run_main_loop lines 279-289: one pass of the loop that finds bytes waiting;
\* the backend is up or down for the whole pass
FramerRead ==
    /\ f_pos < Len(f_stream)
    /\ \E n \in 1..(Len(f_stream) - f_pos), backend_ok \in BOOLEAN :
          LET data == SubSeq(f_stream, f_pos + 1, f_pos + n)
              framed == split_lines(serial_buffer \o decode_ignore(data))
              res == process_lines(accepted(framed.lines), microbit_to_unit,
                                   NoneProcessed(last_statuses), backend_ok)
          IN  /\ serial_buffer' = framed.buffer
              /\ last_statuses' = res.last_statuses
              /\ g_calls' = g_calls \o res.calls
              /\ g_log' = g_log \o res.log
              /\ g_lines' = g_lines + Len(res.log)
              /\ f_prev' = f_pos
              /\ f_before' = [buffer |-> serial_buffer, lines |-> Len(g_log)]
              /\ f_pos' = f_pos + n
    /\ UNCHANGED <<f_stream, microbit_to_unit, g_refreshes>>
    /\ UNCHANGED <<codec_vars, radio_vars, dup_vars, bridge_vars>>
    /\ UNCHANGED <<refresh_vars, wrap_vars, input_vars, proc_vars, once_vars, token_vars, crypto_vars>>

FramerNext ==
    \/ GatewayRefresh
    \/ FramerRead

-----------------------------------------------------------------------------
\* The mapping refresh of bridge_receiver.py run_main_loop, with the serial
\* port filling while load_microbit_cache waits for the backend.

\* lines that arrive at the serial port in all
MaxArrivals == 2

\* Python dict.update(other)
dict_update(dict, other) ==
    [k \in DOMAIN dict \cup DOMAIN other |-> IF k \in DOMAIN other THEN other[k] ELSE dict[k]]

\* a refresh that leaves the old entries in the cache
clear_nothing(dict) == dict

\* run_main_loop line 274: microbit_to_unit.clear()
clear(dict) == NoEntries

RECURSIVE unit_to_microbit_of(_, _)
\* the loop of bridge_emitter.py load_microbit_mapping over the units of the
\* response
unit_to_microbit_of(mapping, units) ==
    IF units = <<>> THEN mapping
    ELSE unit_to_microbit_of(IF Head(units).microbit_id /= <<>> /\ Head(units).id /= <<>>
                             THEN Put(mapping, Head(units).id, Head(units).microbit_id)
                             ELSE mapping,
                             Tail(units))

\* bridge_emitter.py load_microbit_mapping (its first result)
load_microbit_mapping(failed, units) ==
    IF failed THEN NoEntries ELSE unit_to_microbit_of(NoEntries, units)

\* bridge_emitter.py run_main_loop lines 254-259: unit_to_microbit after a
\* refresh
emitter_refresh(unit_to_microbit, failed, units) ==
    dict_update(clear(unit_to_microbit), load_microbit_mapping(failed, units))

\* the reports that arrive: a status and a location of MB001, a status of MB002
RefreshLines == {STA_PAYLOAD, GPS_SHORT, STA_OTHER_PAYLOAD}

\* the lines of the serial port not yet read
Waiting == SubSeq(g_port, g_lines + 1, Len(g_port))

\* main lines 307-308 and run_main_loop lines 267-269: the mapping is loaded
\* once before the loop starts
RefreshInit ==
    /\ \E failed \in BOOLEAN, units \in UnitsResponses :
          /\ microbit_to_unit = load_microbit_cache(failed, units)
          /\ g_response = [failed |-> failed, units |-> units]
    /\ last_statuses = NoEntries
    /\ g_calls = <<>>
    /\ g_lines = 0
    /\ g_log = <<>>
    /\ g_refreshes = 0
    /\ g_pc = "loop"
    /\ g_port = <<>>
    /\ g_before = NoEntries

RefreshIdle ==
    /\ g_pc = "loop"
    /\ g_port = <<>>
    /\ g_before = NoEntries
    /\ g_response = [failed |-> FALSE, units |-> <<>>]

\* run_main_loop lines 273-275: the refresh is due, the cache is emptied and
\* load_microbit_cache sends its request
RefreshBegin ==
    /\ g_pc = "loop"
    /\ g_refreshes < MaxRefresh
    /\ g_before' = microbit_to_unit
    /\ microbit_to_unit' = clear(microbit_to_unit)
    /\ g_pc' = "loading"
    /\ UNCHANGED <<last_statuses, g_calls, g_lines, g_log, g_refreshes, g_port, g_response>>
    /\ UNCHANGED <<codec_vars, radio_vars, dup_vars, bridge_vars, framer_vars>>
    /\ UNCHANGED <<wrap_vars, input_vars, proc_vars, once_vars, token_vars, crypto_vars>>

\* run_main_loop lines 275-277: the request fails or is answered, and the
\* cache takes the entries load_microbit_cache returned
RefreshEnd ==
    /\ g_pc = "loading"
    /\ \E failed \in BOOLEAN, units \in UnitsResponses :
          /\ microbit_to_unit' =
                dict_update(microbit_to_unit, load_microbit_cache(failed, units))
          /\ g_response' = [failed |-> failed, units |-> units]
    /\ g_refreshes' = g_refreshes + 1
    /\ g_pc' = "loop"
    /\ UNCHANGED <<last_statuses, g_calls, g_lines, g_log, g_port, g_before>>
    /\ UNCHANGED <<codec_vars, radio_vars, dup_vars, bridge_vars, framer_vars>>
    /\ UNCHANGED <<wrap_vars, input_vars, proc_vars, once_vars, token_vars, crypto_vars>>

\* the device at the other end of the serial line writes a report, whatever
\* the bridge is doing; before is the cache as the latest finished refresh
\* left it
LineArrives ==
    /\ Len(g_port) < MaxArrivals
    /\ \E line \in RefreshLines :
          g_port' = Append(g_port,
                           [line |-> line, during |-> g_pc = "loading",
                            before |-> IF g_pc = "loading" THEN g_before
                                       ELSE microbit_to_unit])
    /\ UNCHANGED <<microbit_to_unit, last_statuses, g_calls, g_lines, g_log, g_refreshes,
                   g_pc, g_before, g_response>>
    /\ UNCHANGED <<codec_vars, radio_vars, dup_vars, bridge_vars, framer_vars>>
    /\ UNCHANGED <<wrap_vars, input_vars, proc_vars, once_vars, token_vars, crypto_vars>>

\* run_main_loop lines 280-289: a pass of the loop reads what is waiting and
\* processes its lines; the backend is up or down for the whole pass
RefreshRead ==
    /\ g_pc = "loop"
    /\ Waiting /= <<>>
    /\ \E backend_ok \in BOOLEAN :
          LET res == process_lines([k \in 1..Len(Waiting) |-> Waiting[k].line],
                                   microbit_to_unit, NoneProcessed(last_statuses),
                                   backend_ok)
          IN  /\ last_statuses' = res.last_statuses
              /\ g_calls' = g_calls \o res.calls
              /\ g_log' = g_log \o res.log
              /\ g_lines' = g_lines + Len(res.log)
    /\ UNCHANGED <<microbit_to_unit, g_refreshes, refresh_vars>>
    /\ UNCHANGED <<codec_vars, radio_vars, dup_vars, bridge_vars, framer_vars>>
    /\ UNCHANGED <<wrap_vars, input_vars, proc_vars, once_vars, token_vars, crypto_vars>>

RefreshNext ==
    \/ RefreshBegin
    \/ RefreshEnd
    \/ LineArrives
    \/ RefreshRead

-----------------------------------------------------------------------------
\* A unit sending report after report to the relay, past the wrap of its
\* sequence counter. Neither time nor retransmissions are followed: every
\* frame is heard by the relay and taken before the next one is sent.

\* frames the unit builds: the counter passes 255 and starts again
MaxBuilt == 258

\* unit.py lines 194-197: a report is due and send_secure puts it on the air
WrapSend ==
    /\ w_built < MaxBuilt
    /\ r_inbox = <<>>
    /\ send_secure(MSG_FORMAT(UNIT_ID, GPS_LAT, GPS_LON, u_current_status))
    /\ r_inbox' /= <<>>
    /\ last_send_time' = u_now
    /\ w_built' = w_built + 1
    /\ UNCHANGED <<u_pc, u_now, u_current_status, u_inbox>>
    /\ UNCHANGED <<last_sequences, r_current_status, r_out, channel_vars>>
    /\ UNCHANGED <<codec_vars, dup_vars, gateway_vars, bridge_vars, framer_vars>>
    /\ UNCHANGED <<refresh_vars, input_vars, proc_vars, once_vars, token_vars, crypto_vars>>

\* relay.py lines 128-165: the relay takes the frame; what becomes of its ACK
\* at the unit is not followed
WrapRelayLoop == RelayLoop /\ UNCHANGED u_inbox

WrapNext ==
    \/ WrapSend
    \/ WrapRelayLoop

-----------------------------------------------------------------------------
\* The receiving loops of the relay and of the two bridges fed with damaged
\* input. int() and float() raise ValueError on a text that is no number; an
\* exception a try block does not name leaves the loop and ends the program.

\* inputs fed in one behaviour
MaxInputs == 3

\* relay.py lines 86 and 100: the exceptions without ValueError
relay_caught_no_value_error == {"IndexError", "AttributeError"}

\* relay.py lines 86 and 100: the exceptions parse_secure_message and
\* parse_unit_data catch
relay_caught == {"ValueError", "IndexError", "AttributeError"}

\* bridge_receiver.py lines 85, 101 and 117: the exceptions the parsers catch
receiver_caught == {"ValueError", "IndexError"}

\* bridge.py line 70: the exceptions parse_unit_message catches
bridge_caught == {"ValueError", "IndexError", "AttributeError"}

\* what int(s) raises ("none": it returns)
int_raises(s) == IF IntParse(s).ok THEN "none" ELSE "ValueError"

\* what float(s) raises ("none": it returns)
float_raises(s) == IF FloatOk(s) THEN "none" ELSE "ValueError"

\* the first exception raised by conversions made one after the other
first_raised(raised) ==
    IF \A i \in 1..Len(raised) : raised[i] = "none" THEN "none"
    ELSE raised[CHOOSE i \in 1..Len(raised) :
                    /\ raised[i] /= "none"
                    /\ \A j \in 1..(i - 1) : raised[j] = "none"]

\* relay.py lines 66-73: what the body of parse_secure_message's try raises
parse_secure_message_raises(packet) ==
    LET parts == Split(packet, "|")
    IN  IF Len(parts) /= 4 THEN "none"
        ELSE first_raised(<<int_raises(parts[1]), int_raises(parts[3]),
                            int_raises(parts[4])>>)

\* relay.py lines 94-99: what the body of parse_unit_data's try raises
parse_unit_data_raises(data) ==
    LET parts == Split(SubSeq(data, Len(UNIT_PREFIX) + 1, Len(data)), ",")
    IN  IF ~StartsWith(data, UNIT_PREFIX) \/ Len(parts) < 4 THEN "none"
        ELSE first_raised(<<float_raises(parts[2]), float_raises(parts[3])>>)

\* bridge_receiver.py lines 76-84: what the body of parse_gps_message's try
\* raises; parse_sta_message and parse_mbit_message convert nothing
parse_gps_message_raises(message) ==
    LET parts == Split(Drop(message, Len(GPS_PREFIX)), ",")
    IN  IF ~StartsWith(message, GPS_PREFIX) \/ Len(parts) < 3 THEN "none"
        ELSE first_raised(<<float_raises(parts[2]), float_raises(parts[3])>>)

\* bridge.py lines 61-69: what the body of parse_unit_message's try raises
parse_unit_message_raises(message) ==
    LET parts == Split(Drop(message, Len(UNIT_PREFIX)), ",")
    IN  IF ~StartsWith(message, UNIT_PREFIX) \/ Len(parts) < 4 THEN "none"
        ELSE first_raised(<<float_raises(parts[2]), float_raises(parts[3])>>)

\* the exception raised leaves the try block that names caught
Escapes(raised, caught) == raised /= "none" /\ raised \notin caught

\* relay.py lines 129-165: one pass of the relay's loop over a packet, the
\* relay knowing no sequence yet; "raised" when an exception leaves the loop
relay_pass(packet) ==
    LET parsed == parse_secure_message(packet)
        out == relay_handle(packet, NoSequences, NO_STATUS)
    IN  IF packet = <<>> \/ StartsWith(packet, ACK_PREFIX) THEN "dropped"
        ELSE IF Escapes(parse_secure_message_raises(packet), relay_caught) THEN "raised"
        ELSE IF parsed.error /= "OK" THEN "rejected"
        ELSE IF Escapes(parse_unit_data_raises(parsed.data), relay_caught) THEN "raised"
        ELSE IF out.acks = <<>> /\ out.prints = <<>> THEN "dropped"
        ELSE "taken"

\* the mapping the receiving bridge holds while it is fed
INPUT_MAPPING == load_microbit_cache(FALSE, <<[microbit_id |-> MB001, id |-> UNIT_1]>>)

\* bridge_receiver.py lines 285-289 with process_line: one line of the loop
receiver_pass(line) ==
    IF Escapes(parse_gps_message_raises(extract_payload(line)), receiver_caught)
    THEN "raised"
    ELSE IF process_line(line, INPUT_MAPPING, NoEntries, TRUE).calls = <<>>
    THEN "dropped"
    ELSE "taken"

\* bridge.py lines 246-268: one line of process_serial_buffer, the backend
\* answering every call
bridge_pass(line) ==
    LET answers == [get |-> "found", create |-> TRUE, status |-> TRUE, location |-> TRUE]
    IN  IF StartsWith(line, REJECT_PREFIX) THEN "rejected"
        ELSE IF Escapes(parse_unit_message_raises(line), bridge_caught) THEN "raised"
        ELSE IF process_serial_line(line, NoEntries, NoEntries, answers).calls = <<>>
        THEN "dropped"
        ELSE "taken"

COORD_PAYLOAD == <<"U", "N", "I", "T", ":", "V", "S", "A", "V", "0", "1", ",", "a", "b", "c", ",", "4", ".", "8", "5", "0", "0", "0", "0", ",", "A", "V", "L">>

SHORT_PAYLOAD == <<"U", "N", "I", "T", ":", "V", "S", "A", "V", "0", "1", ",", "4", "5", ".", "7", "5", "0", "0", "0", "0">>

GPS_COORD_PAYLOAD == <<"G", "P", "S", ":", "M", "B", "0", "0", "1", ",", "a", "b", "c", ",", "4", ".", "8", "9">>

GPS_MISSING_PAYLOAD == <<"G", "P", "S", ":", "M", "B", "0", "0", "1", ",", "4", "5", ".", "7", "6">>

STA_SHORT_PAYLOAD == <<"S", "T", "A", ":", "M", "B", "0", "0", "1">>

UNKNOWN_PAYLOAD == <<"X", "Y", "Z", ":", "M", "B", "0", "0", "1", ",", "U", "W", "Y">>

\* the four fields of a frame put together
Framed(seq, data, crc, sig) == seq \o <<"|">> \o data \o <<"|">> \o crc \o <<"|">> \o sig

\* damaged radio packets: too few fields, too many, a sequence, a checksum
\* and a tag that are no numbers, coordinates that are no numbers, missing
\* fields, an unknown prefix
MalformedPackets ==
    { STA_PAYLOAD,
      UnitFrame(UNIT_ID, 0) \o <<"|", "7">>,
      Framed(<<"x">>, COORD_PAYLOAD, <<"1">>, <<"2">>),
      Framed(<<"0">>, COORD_PAYLOAD, <<"1", "a">>, <<"2">>),
      Framed(<<"0">>, COORD_PAYLOAD, <<"1">>, <<>>),
      build_secure_message(COORD_PAYLOAD, 0).message,
      build_secure_message(SHORT_PAYLOAD, 0).message,
      build_secure_message(UNKNOWN_PAYLOAD, 0).message,
      CORRUPT_FRAME }

\* damaged lines of a relay or an emitting bridge, bare and framed
MalformedLines ==
    { GPS_COORD_PAYLOAD,
      build_packet(GPS_COORD_PAYLOAD, 0).packet,
      GPS_MISSING_PAYLOAD,
      STA_SHORT_PAYLOAD,
      UNKNOWN_PAYLOAD,
      <<"|">>,
      COORD_PAYLOAD,
      SHORT_PAYLOAD }

\* the program prog has left its loop
Stopped(prog) == \E k \in 1..Len(i_log) : i_log[k].prog = prog /\ i_log[k].outcome = "raised"

\* relay.py lines 128-165: the relay's loop takes a packet
InputRelay ==
    /\ Len(i_log) < MaxInputs
    /\ ~Stopped("relay")
    /\ \E packet \in MalformedPackets \cup {UnitFrame(UNIT_ID, 0)} :
          i_log' = Append(i_log, [prog |-> "relay", text |-> packet,
                                  outcome |-> relay_pass(packet)])
    /\ UNCHANGED <<codec_vars, radio_vars, dup_vars, gateway_vars, bridge_vars, framer_vars>>
    /\ UNCHANGED <<refresh_vars, wrap_vars, proc_vars, once_vars, token_vars, crypto_vars>>

\* bridge_receiver.py lines 284-289: the receiving bridge's loop takes a line
InputReceiver ==
    /\ Len(i_log) < MaxInputs
    /\ ~Stopped("bridge_receiver")
    /\ \E line \in MalformedLines \cup {GPS_PAYLOAD, STA_PAYLOAD} :
          i_log' = Append(i_log, [prog |-> "bridge_receiver", text |-> line,
                                  outcome |-> receiver_pass(line)])
    /\ UNCHANGED <<codec_vars, radio_vars, dup_vars, gateway_vars, bridge_vars, framer_vars>>
    /\ UNCHANGED <<refresh_vars, wrap_vars, proc_vars, once_vars, token_vars, crypto_vars>>

\* bridge.py lines 243-268: the bridge's loop takes a line
InputBridge ==
    /\ Len(i_log) < MaxInputs
    /\ ~Stopped("bridge")
    /\ \E line \in MalformedLines
                   \cup {MSG_FORMAT(UNIT_ID, GPS_LAT, GPS_LON, STATUS_AVL),
                         RejectLine(ErrorText("CRC"), CORRUPT_FRAME)} :
          i_log' = Append(i_log, [prog |-> "bridge", text |-> line,
                                  outcome |-> bridge_pass(line)])
    /\ UNCHANGED <<codec_vars, radio_vars, dup_vars, gateway_vars, bridge_vars, framer_vars>>
    /\ UNCHANGED <<refresh_vars, wrap_vars, proc_vars, once_vars, token_vars, crypto_vars>>

InputNext ==
    \/ InputRelay
    \/ InputReceiver
    \/ InputBridge

-----------------------------------------------------------------------------
\* A bridge process from its start to its exit: main() of bridge_receiver.py,
\* bridge_emitter.py and bridge.py. The process ends with status 0 when main
\* returns and with a non-zero status (1 here) when an exception leaves main.

\* health checks wait_for_api makes before the backend must answer
MaxHealthChecks == 3

\* passes of the main loop that are followed
MaxPasses == 3

Programs == {"bridge_receiver", "bridge_emitter", "bridge"}

\* the order of the steps of main(): bridge_receiver.py lines 301-315,
\* bridge_emitter.py lines 280-295, bridge.py lines 301-315
steps(prog) ==
    IF prog = "bridge_receiver"
    THEN <<"find_port", "open", "settle", "wait_for_api", "load_mapping", "loop">>
    ELSE IF prog = "bridge_emitter"
    THEN <<"find_port", "open", "settle", "load_mapping", "loop">>
    ELSE <<"find_port", "wait_for_api", "open", "settle", "loop">>

\* the step of main() that follows pc
after(prog, pc) ==
    steps(prog)[1 + CHOOSE i \in 1..(Len(steps(prog)) - 1) : steps(prog)[i] = pc]

\* the steps that main() has inside a try with a finally that closes the
\* handle: bridge_receiver.py lines 314-320, bridge_emitter.py lines 294-300,
\* bridge.py lines 314-318
guarded(prog) == {"loop"}

\* the process goes on to the next step of main()
Proceed ==
    /\ p_pc' = after(p_prog, p_pc)
    /\ UNCHANGED <<p_prog, p_exit, p_cause>>

\* main() returns (status 0) or an exception leaves it (status 1)
Exit(status, cause) ==
    /\ p_pc' = "exited"
    /\ p_exit' = status
    /\ p_cause' = cause
    /\ UNCHANGED p_prog

\* one of the three programs is started
ProcStart ==
    /\ p_prog = "none"
    /\ p_prog' \in Programs
    /\ p_pc' = "find_port"
    /\ UNCHANGED <<p_ser, p_exit, p_cause, p_tries, p_passes>>
    /\ UNCHANGED <<codec_vars, radio_vars, dup_vars, gateway_vars, bridge_vars, framer_vars>>
    /\ UNCHANGED <<refresh_vars, wrap_vars, input_vars, once_vars, token_vars, crypto_vars>>

\* setup_serial (bridge_receiver.py lines 189-193, bridge_emitter.py lines
\* 137-141) and get_serial_port (bridge.py lines 196-204): without a port
\* they return None and main() returns
ProcFindPort ==
    /\ p_pc = "find_port"
    /\ \E found \in BOOLEAN :
          IF found THEN Proceed ELSE Exit(0, "no_port")
    /\ UNCHANGED <<p_ser, p_tries, p_passes>>
    /\ UNCHANGED <<codec_vars, radio_vars, dup_vars, gateway_vars, bridge_vars, framer_vars>>
    /\ UNCHANGED <<refresh_vars, wrap_vars, input_vars, once_vars, token_vars, crypto_vars>>

\* serial.Serial(...) in setup_serial and connect_serial: a SerialException
\* is caught, None is returned and main() returns
ProcOpen ==
    /\ p_pc = "open"
    /\ \E opened \in BOOLEAN :
          IF opened
          THEN Proceed /\ p_ser' = "open"
          ELSE Exit(0, "open_failed") /\ UNCHANGED p_ser
    /\ UNCHANGED <<p_tries, p_passes>>
    /\ UNCHANGED <<codec_vars, radio_vars, dup_vars, gateway_vars, bridge_vars, framer_vars>>
    /\ UNCHANGED <<refresh_vars, wrap_vars, input_vars, once_vars, token_vars, crypto_vars>>

\* time.sleep after the open (bridge_receiver.py line 200, bridge_emitter.py
\* line 148, bridge.py line 232) ends
ProcSettle ==
    /\ p_pc = "settle"
    /\ Proceed
    /\ UNCHANGED <<p_ser, p_tries, p_passes>>
    /\ UNCHANGED <<codec_vars, radio_vars, dup_vars, gateway_vars, bridge_vars, framer_vars>>
    /\ UNCHANGED <<refresh_vars, wrap_vars, input_vars, once_vars, token_vars, crypto_vars>>

\* wait_for_api: one health check; it is made again until the backend
\* answers 200
ProcWaitForApi ==
    /\ p_pc = "wait_for_api"
    /\ \E up \in BOOLEAN :
          IF up
          THEN Proceed /\ UNCHANGED p_tries
          ELSE /\ p_tries < MaxHealthChecks
               /\ p_tries' = p_tries + 1
               /\ UNCHANGED <<p_prog, p_pc, p_exit, p_cause>>
    /\ UNCHANGED <<p_ser, p_passes>>
    /\ UNCHANGED <<codec_vars, radio_vars, dup_vars, gateway_vars, bridge_vars, framer_vars>>
    /\ UNCHANGED <<refresh_vars, wrap_vars, input_vars, once_vars, token_vars, crypto_vars>>

\* the initial load of the mapping (bridge_receiver.py line 308,
\* bridge_emitter.py line 285) ends; a failed load gives an empty mapping
ProcLoadMapping ==
    /\ p_pc = "load_mapping"
    /\ Proceed
    /\ UNCHANGED <<p_ser, p_tries, p_passes>>
    /\ UNCHANGED <<codec_vars, radio_vars, dup_vars, gateway_vars, bridge_vars, framer_vars>>
    /\ UNCHANGED <<refresh_vars, wrap_vars, input_vars, once_vars, token_vars, crypto_vars>>

\* one pass of the main loop without an exception
ProcLoopPass ==
    /\ p_pc = "loop"
    /\ p_passes < MaxPasses
    /\ p_passes' = p_passes + 1
    /\ UNCHANGED <<p_prog, p_pc, p_ser, p_exit, p_cause, p_tries>>
    /\ UNCHANGED <<codec_vars, radio_vars, dup_vars, gateway_vars, bridge_vars, framer_vars>>
    /\ UNCHANGED <<refresh_vars, wrap_vars, input_vars, once_vars, token_vars, crypto_vars>>

\* KeyboardInterrupt at the current step: inside the try it is caught
\* (bridge_receiver.py line 316, bridge_emitter.py line 296, bridge.py line
\* 289), the finally closes the handle and main() returns; anywhere else it
\* leaves main() at once
ProcInterrupt ==
    /\ p_pc \notin {"idle", "exited"}
    /\ IF p_pc \in guarded(p_prog)
       THEN Exit(0, "interrupt") /\ p_ser' = "closed"
       ELSE Exit(1, "interrupt") /\ UNCHANGED p_ser
    /\ UNCHANGED <<p_tries, p_passes>>
    /\ UNCHANGED <<codec_vars, radio_vars, dup_vars, gateway_vars, bridge_vars, framer_vars>>
    /\ UNCHANGED <<refresh_vars, wrap_vars, input_vars, once_vars, token_vars, crypto_vars>>

\* a SerialException from the port inside the main loop: bridge.py catches
\* it in read_serial_data (line 245) and goes on; in bridge_receiver.py
\* (line 280) and bridge_emitter.py (line 92) it leaves main() through the
\* finally that closes the handle
ProcSerialError ==
    /\ p_pc = "loop"
    /\ IF p_prog = "bridge"
       THEN /\ p_passes < MaxPasses
            /\ p_passes' = p_passes + 1
            /\ UNCHANGED <<p_prog, p_pc, p_ser, p_exit, p_cause>>
       ELSE /\ Exit(1, "serial_error")
            /\ p_ser' = "closed"
            /\ UNCHANGED p_passes
    /\ UNCHANGED p_tries
    /\ UNCHANGED <<codec_vars, radio_vars, dup_vars, gateway_vars, bridge_vars, framer_vars>>
    /\ UNCHANGED <<refresh_vars, wrap_vars, input_vars, once_vars, token_vars, crypto_vars>>

ProcNext ==
    \/ ProcStart
    \/ ProcFindPort
    \/ ProcOpen
    \/ ProcSettle
    \/ ProcWaitForApi
    \/ ProcLoadMapping
    \/ ProcLoopPass
    \/ ProcInterrupt
    \/ ProcSerialError

-----------------------------------------------------------------------------
\* token_manager.py: TokenManager, called from several threads.

\* calls of get_token that are followed
MaxCalls == 3

\* latest time.time() the threads are followed to, in seconds
MaxClock == 40

\* the clock moves in steps of ten seconds
ClockSteps == {10}

Threads == {1, 2}

\* None in self.access_token
NO_TOKEN == "None"

\* get_token refreshes a token that expires within this many seconds
REFRESH_MARGIN == 30

\* data.get("expires_in", 300)
DEFAULT_EXPIRES_IN == 300

\* what requests.post gives back: it raises, or answers with a status and,
\* for 200, a body whose access_token may be missing (None) and whose
\* expires_in is a number, is missing, or is not a number
NoBody == [access_token |-> NO_TOKEN, expires_in |-> [kind |-> "absent", val |-> 0]]

TokenResponses ==
    {[raised |-> FALSE, status_code |-> 200,
      body |-> [access_token |-> t, expires_in |-> e]] :
        t \in {"T1", NO_TOKEN},
        e \in {[kind |-> "number", val |-> 40], [kind |-> "absent", val |-> 0],
               [kind |-> "text", val |-> 0]}}
    \cup {[raised |-> FALSE, status_code |-> 503, body |-> NoBody],
          [raised |-> TRUE, status_code |-> 0, body |-> NoBody]}

\* get_token refreshing only once the token has expired
needs_fetch_at_expiry(token, now, expires) ==
    token = NO_TOKEN \/ now > expires

\* token_manager.py get_token, the test of line 53
needs_fetch(token, now, expires) ==
    token = NO_TOKEN \/ now > expires - REFRESH_MARGIN

\* token_manager.py _fetch_token: the fields afterwards and whether the fetch
\* failed (the else branch or the except branch was taken); expires_in that is
\* not a number raises TypeError in line 75, after line 73 stored the token
fetch_token(response, now, expires) ==
    IF response.raised
    THEN [access_token |-> NO_TOKEN, expires_at |-> expires, failed |-> TRUE]
    ELSE IF response.status_code = 200
    THEN IF response.body.expires_in.kind = "text"
         THEN [access_token |-> NO_TOKEN, expires_at |-> expires, failed |-> TRUE]
         ELSE [access_token |-> response.body.access_token,
               expires_at |-> now + (IF response.body.expires_in.kind = "absent"
                                     THEN DEFAULT_EXPIRES_IN
                                     ELSE response.body.expires_in.val),
               failed |-> FALSE]
    ELSE [access_token |-> NO_TOKEN, expires_at |-> expires, failed |-> TRUE]

NoCall == [held |-> NO_TOKEN, now |-> 0, expires_at |-> 0, fetched |-> FALSE, failed |-> FALSE]

TokenIdle ==
    /\ access_token = NO_TOKEN
    /\ expires_at = 0
    /\ t_lock = 0
    /\ t_pc = [c \in Threads |-> "idle"]
    /\ t_now = 0
    /\ t_seen = [c \in Threads |-> NoCall]
    /\ t_log = <<>>
    /\ t_calls = 0

\* a thread calls get_token and reaches "with self._lock"
TokenCall(c) ==
    /\ t_pc[c] = "idle"
    /\ t_calls < MaxCalls
    /\ t_calls' = t_calls + 1
    /\ t_pc' = [t_pc EXCEPT ![c] = "waiting"]
    /\ UNCHANGED <<access_token, expires_at, t_lock, t_now, t_seen, t_log>>
    /\ UNCHANGED <<codec_vars, radio_vars, dup_vars, gateway_vars, bridge_vars, framer_vars>>
    /\ UNCHANGED <<refresh_vars, wrap_vars, input_vars, proc_vars, once_vars, crypto_vars>>

\* the thread takes the lock, which no thread holds
TokenAcquire(c) ==
    /\ t_pc[c] = "waiting"
    /\ t_lock = 0
    /\ t_lock' = c
    /\ t_pc' = [t_pc EXCEPT ![c] = "check"]
    /\ UNCHANGED <<access_token, expires_at, t_now, t_seen, t_log, t_calls>>
    /\ UNCHANGED <<codec_vars, radio_vars, dup_vars, gateway_vars, bridge_vars, framer_vars>>
    /\ UNCHANGED <<refresh_vars, wrap_vars, input_vars, proc_vars, once_vars, crypto_vars>>

\* line 53: the thread reads the fields and the clock; when a fetch is needed
\* it posts the request of _fetch_token
TokenCheck(c) ==
    /\ t_pc[c] = "check"
    /\ LET fetch == needs_fetch(access_token, t_now, expires_at)
       IN  /\ t_seen' = [t_seen EXCEPT ![c] =
                            [held |-> access_token, now |-> t_now,
                             expires_at |-> expires_at, fetched |-> fetch,
                             failed |-> FALSE]]
           /\ t_pc' = [t_pc EXCEPT ![c] = IF fetch THEN "fetch" ELSE "return"]
    /\ UNCHANGED <<access_token, expires_at, t_lock, t_now, t_log, t_calls>>
    /\ UNCHANGED <<codec_vars, radio_vars, dup_vars, gateway_vars, bridge_vars, framer_vars>>
    /\ UNCHANGED <<refresh_vars, wrap_vars, input_vars, proc_vars, once_vars, crypto_vars>>

\* the request ends and _fetch_token stores what it brought
TokenRespond(c) ==
    /\ t_pc[c] = "fetch"
    /\ \E response \in TokenResponses :
          LET res == fetch_token(response, t_now, expires_at)
          IN  /\ access_token' = res.access_token
              /\ expires_at' = res.expires_at
              /\ t_seen' = [t_seen EXCEPT ![c].failed = res.failed]
    /\ t_pc' = [t_pc EXCEPT ![c] = "return"]
    /\ UNCHANGED <<t_lock, t_now, t_log, t_calls>>
    /\ UNCHANGED <<codec_vars, radio_vars, dup_vars, gateway_vars, bridge_vars, framer_vars>>
    /\ UNCHANGED <<refresh_vars, wrap_vars, input_vars, proc_vars, once_vars, crypto_vars>>

\* line 55: the thread returns self.access_token and leaves the with block
TokenReturn(c) ==
    /\ t_pc[c] = "return"
    /\ t_log' = Append(t_log, [thread |-> c, call |-> t_seen[c],
                               returned |-> access_token])
    /\ t_lock' = 0
    /\ t_pc' = [t_pc EXCEPT ![c] = "idle"]
    /\ UNCHANGED <<access_token, expires_at, t_now, t_seen, t_calls>>
    /\ UNCHANGED <<codec_vars, radio_vars, dup_vars, gateway_vars, bridge_vars, framer_vars>>
    /\ UNCHANGED <<refresh_vars, wrap_vars, input_vars, proc_vars, once_vars, crypto_vars>>

\* time passes
TokenTick ==
    /\ \E d \in ClockSteps :
          /\ t_now + d <= MaxClock
          /\ t_now' = t_now + d
    /\ UNCHANGED <<access_token, expires_at, t_lock, t_pc, t_seen, t_log, t_calls>>
    /\ UNCHANGED <<codec_vars, radio_vars, dup_vars, gateway_vars, bridge_vars, framer_vars>>
    /\ UNCHANGED <<refresh_vars, wrap_vars, input_vars, proc_vars, once_vars, crypto_vars>>

TokenNext ==
    \/ \E c \in Threads : TokenCall(c)
    \/ \E c \in Threads : TokenAcquire(c)
    \/ \E c \in Threads : TokenCheck(c)
    \/ \E c \in Threads : TokenRespond(c)
    \/ \E c \in Threads : TokenReturn(c)
    \/ TokenTick

-----------------------------------------------------------------------------
\* crypto.py: xor_encrypt and xor_decrypt.

\* In this section a str is the sequence of its code points, so that ord()
\* and chr() need no table; bytes are sequences of 0..255 as elsewhere.

\* longest plain text, key and received text that are drawn
MaxData == 3

MaxKey == 2

MaxReceived == 4

\* "A", NUL, U+00FF and U+2041
DataChars == {65, 0, 255, 8257}

\* "F", U+00C8 and U+2041
KeyChars == {70, 200, 8257}

\* "A", "=", "!" and U+00E9
ReceivedChars == {65, 61, 33, 233}

DataTexts == TextsUpTo(DataChars, MaxData)

\* the key may be empty: key "" is not None and is used as it is
Keys == TextsUpTo(KeyChars, MaxKey)

ReceivedTexts == TextsUpTo(ReceivedChars, MaxReceived)

RECURSIVE BitXor(_, _)
\* Python a ^ b on non-negative integers
BitXor(a, b) ==
    IF a = 0 THEN b
    ELSE IF b = 0 THEN a
    ELSE ((a + b) % 2) + 2 * BitXor(a \div 2, b \div 2)

\* the padding character "="
B64_PAD == 61

\* the character of a 6-bit value in the base64 alphabet A-Z a-z 0-9 + /
b64_char(v) ==
    IF v < 26 THEN 65 + v
    ELSE IF v < 52 THEN 97 + (v - 26)
    ELSE IF v < 62 THEN 48 + (v - 52)
    ELSE IF v = 62 THEN 43
    ELSE 47

\* the 6-bit value of a character, 64 for one outside the alphabet
b64_value(ch) ==
    IF ch >= 65 /\ ch <= 90 THEN ch - 65
    ELSE IF ch >= 97 /\ ch <= 122 THEN ch - 71
    ELSE IF ch >= 48 /\ ch <= 57 THEN ch + 4
    ELSE IF ch = 43 THEN 62
    ELSE IF ch = 47 THEN 63
    ELSE 64

RECURSIVE b64encode(_)
\* base64.b64encode(bytes).decode('ascii'): three bytes give four characters,
\* a last group of one or two bytes is padded with "="
b64encode(bytes) ==
    IF Len(bytes) = 0 THEN <<>>
    ELSE IF Len(bytes) = 1
    THEN <<b64_char(bytes[1] \div 4), b64_char((bytes[1] % 4) * 16), B64_PAD, B64_PAD>>
    ELSE IF Len(bytes) = 2
    THEN <<b64_char(bytes[1] \div 4),
           b64_char((bytes[1] % 4) * 16 + bytes[2] \div 16),
           b64_char((bytes[2] % 16) * 4), B64_PAD>>
    ELSE <<b64_char(bytes[1] \div 4),
           b64_char((bytes[1] % 4) * 16 + bytes[2] \div 16),
           b64_char((bytes[2] % 16) * 4 + bytes[3] \div 64),
           b64_char(bytes[3] % 64)>>
            \o b64encode(SubSeq(bytes, 4, Len(bytes)))

Decoded(bytes) == [raised |-> FALSE, bytes |-> bytes]

DecodeError == [raised |-> TRUE, bytes |-> <<>>]

RECURSIVE a2b_base64(_, _, _, _, _, _)
\* the decoding loop of base64.b64decode without validation, from text[i] on:
\* characters outside the alphabet are skipped, a pad that completes a group
\* of at least two characters ends the input, other pads are skipped, and an
\* unfinished group at the end is an error
a2b_base64(text, i, quad_pos, leftchar, pads, out) ==
    IF i > Len(text)
    THEN IF quad_pos /= 0 THEN DecodeError ELSE Decoded(out)
    ELSE IF text[i] = B64_PAD
    THEN IF quad_pos >= 2 /\ quad_pos + pads + 1 >= 4
         THEN Decoded(out)
         ELSE a2b_base64(text, i + 1, quad_pos, leftchar,
                         IF quad_pos >= 2 THEN pads + 1 ELSE pads, out)
    ELSE IF b64_value(text[i]) >= 64
    THEN a2b_base64(text, i + 1, quad_pos, leftchar, pads, out)
    ELSE LET this_ch == b64_value(text[i])
         IN  IF quad_pos = 0
             THEN a2b_base64(text, i + 1, 1, this_ch, 0, out)
             ELSE IF quad_pos = 1
             THEN a2b_base64(text, i + 1, 2, this_ch % 16, 0,
                             Append(out, leftchar * 4 + this_ch \div 16))
             ELSE IF quad_pos = 2
             THEN a2b_base64(text, i + 1, 3, this_ch % 4, 0,
                             Append(out, leftchar * 16 + this_ch \div 4))
             ELSE a2b_base64(text, i + 1, 0, 0, 0, Append(out, leftchar * 64 + this_ch))

\* base64.b64decode(text) for a str: a character that is not ASCII is an
\* error, the rest is the loop above
b64decode(text) ==
    IF \E i \in 1..Len(text) : text[i] >= 128
    THEN DecodeError
    ELSE a2b_base64(text, 1, 0, 0, 0, <<>>)

\* key[i % len(key)] for the index i counted from 0
key_char(key, i) == key[(i % Len(key)) + 1]

\* crypto.py xor_encrypt with the key given: it raises ZeroDivisionError on an
\* empty key and ValueError on a byte that is not in range(256)
xor_encrypt(data, key) ==
    IF Len(data) > 0 /\ Len(key) = 0
    THEN [raised |-> TRUE, text |-> <<>>]
    ELSE LET encrypted_bytes ==
                 [i \in 1..Len(data) |-> BitXor(data[i], key_char(key, i - 1))]
         IN  IF \E i \in 1..Len(data) : encrypted_bytes[i] > 255
             THEN [raised |-> TRUE, text |-> <<>>]
             ELSE [raised |-> FALSE, text |-> b64encode(encrypted_bytes)]

\* xor_decrypt that takes the first character of the key for every byte
xor_decrypt_first_key_char(encrypted_data, key) ==
    LET decoded == b64decode(encrypted_data)
    IN  IF decoded.raised THEN encrypted_data
        ELSE IF Len(decoded.bytes) > 0 /\ Len(key) = 0 THEN encrypted_data
        ELSE [i \in 1..Len(decoded.bytes) |->
                 BitXor(decoded.bytes[i], key_char(key, 0))]

\* crypto.py xor_decrypt with the key given: any exception of the try block
\* (from b64decode, or ZeroDivisionError on an empty key) gives the input back
xor_decrypt(encrypted_data, key) ==
    LET decoded == b64decode(encrypted_data)
    IN  IF decoded.raised THEN encrypted_data
        ELSE IF Len(decoded.bytes) > 0 /\ Len(key) = 0 THEN encrypted_data
        ELSE [i \in 1..Len(decoded.bytes) |->
                 BitXor(decoded.bytes[i], key_char(key, i - 1))]

CryptoIdle ==
    /\ x_pc = "idle"
    /\ x_data = <<>>
    /\ x_key = <<>>
    /\ x_encrypted = <<>>
    /\ x_decrypted = <<>>

CryptoInit ==
    /\ x_pc = "input"
    /\ x_data \in DataTexts
    /\ x_key \in Keys
    /\ x_encrypted = <<>>
    /\ x_decrypted = <<>>

\* the sender encrypts the plain text
CryptoEncrypt ==
    /\ x_pc = "input"
    /\ LET res == xor_encrypt(x_data, x_key)
       IN  /\ x_pc' = IF res.raised THEN "raised" ELSE "encrypted"
           /\ x_encrypted' = res.text
    /\ UNCHANGED <<x_data, x_key, x_decrypted>>
    /\ UNCHANGED <<codec_vars, radio_vars, dup_vars, gateway_vars, bridge_vars, framer_vars>>
    /\ UNCHANGED <<refresh_vars, wrap_vars, input_vars, proc_vars, once_vars, token_vars>>

\* a text arrives that xor_encrypt did not make
CryptoReceive ==
    /\ x_pc = "input"
    /\ x_data = <<>>
    /\ x_encrypted' \in ReceivedTexts
    /\ x_pc' = "received"
    /\ UNCHANGED <<x_data, x_key, x_decrypted>>
    /\ UNCHANGED <<codec_vars, radio_vars, dup_vars, gateway_vars, bridge_vars, framer_vars>>
    /\ UNCHANGED <<refresh_vars, wrap_vars, input_vars, proc_vars, once_vars, token_vars>>

\* the receiver decrypts with the same key
CryptoDecrypt ==
    /\ x_pc \in {"encrypted", "received"}
    /\ x_decrypted' = xor_decrypt(x_encrypted, x_key)
    /\ x_pc' = IF x_pc = "encrypted" THEN "round_trip" ELSE "decrypted"
    /\ UNCHANGED <<x_data, x_key, x_encrypted>>
    /\ UNCHANGED <<codec_vars, radio_vars, dup_vars, gateway_vars, bridge_vars, framer_vars>>
    /\ UNCHANGED <<refresh_vars, wrap_vars, input_vars, proc_vars, once_vars, token_vars>>

CryptoNext == CryptoEncrypt \/ CryptoReceive \/ CryptoDecrypt

-----------------------------------------------------------------------------
\* Parts of the model that are at rest in the specifications above.

WrapIdle == w_built = 0

InputIdle == i_log = <<>>

OnceIdle == r_forwarded = <<>>

ProcIdle ==
    /\ p_prog = "none"
    /\ p_pc = "idle"
    /\ p_ser = "none"
    /\ p_exit = -1
    /\ p_cause = "none"
    /\ p_tries = 0
    /\ p_passes = 0

-----------------------------------------------------------------------------
\* Specifications.

vars ==
    <<codec_vars, radio_vars, dup_vars, gateway_vars, bridge_vars, framer_vars,
      refresh_vars, wrap_vars, input_vars, proc_vars, once_vars, token_vars,
      crypto_vars>>

\* the radio link: one unit, the relay, the rest of the channel
Init ==
    CodecIdle /\ RadioInit /\ DupInit /\ GatewayIdle /\ BridgeInit /\ FramerIdle
    /\ RefreshIdle /\ WrapIdle /\ InputIdle /\ ProcIdle /\ OnceIdle /\ TokenIdle /\ CryptoIdle

Next == RadioNext

Spec == Init /\ [][Next]_vars

\* one unit and the relay on a channel that loses packets
SpecOnce == Init /\ [][OnceNext]_vars

\* one TokenManager and two threads
SpecToken == Init /\ [][TokenNext]_vars

\* one text through the cipher
InitCrypto ==
    CodecIdle /\ RadioInit /\ DupInit /\ GatewayIdle /\ BridgeInit /\ FramerIdle
    /\ RefreshIdle /\ WrapIdle /\ InputIdle /\ ProcIdle /\ OnceIdle /\ TokenIdle
    /\ CryptoInit

SpecCrypto == InitCrypto /\ [][CryptoNext]_vars

\* the codec alone
InitCodec ==
    CodecInit /\ RadioInit /\ DupInit /\ GatewayIdle /\ BridgeInit /\ FramerIdle
    /\ RefreshIdle /\ WrapIdle /\ InputIdle /\ ProcIdle /\ OnceIdle /\ TokenIdle /\ CryptoIdle

SpecCodec == InitCodec /\ [][CodecNext]_vars

\* the duplicate tracker alone
SpecDup == Init /\ [][DupNext]_vars

\* the relay alone
SpecRelay == Init /\ [][RelayNext]_vars

\* the gateway alone
InitGateway ==
    CodecIdle /\ RadioInit /\ DupInit /\ GatewayInit /\ BridgeInit /\ FramerIdle
    /\ RefreshIdle /\ WrapIdle /\ InputIdle /\ ProcIdle /\ OnceIdle /\ TokenIdle /\ CryptoIdle

SpecGateway == InitGateway /\ [][GatewayNext]_vars

\* the serial line and the gateway behind it
InitFramer ==
    CodecIdle /\ RadioInit /\ DupInit /\ GatewayInit /\ BridgeInit /\ FramerInit
    /\ RefreshIdle /\ WrapIdle /\ InputIdle /\ ProcIdle /\ OnceIdle /\ TokenIdle /\ CryptoIdle

SpecFramer == InitFramer /\ [][FramerNext]_vars

\* bridge.py alone
SpecBridge == Init /\ [][BridgeNext]_vars

\* a unit and the relay over many reports
SpecWrap == Init /\ [][WrapNext]_vars

\* the receiving loops fed with damaged input
SpecInput == Init /\ [][InputNext]_vars

\* a bridge process from start to exit
SpecProc == Init /\ [][ProcNext]_vars

\* the receiving bridge with its mapping refresh in progress
InitRefresh ==
    CodecIdle /\ RadioInit /\ DupInit /\ RefreshInit /\ BridgeInit /\ FramerIdle
    /\ WrapIdle /\ InputIdle /\ ProcIdle /\ OnceIdle /\ TokenIdle /\ CryptoIdle

SpecRefresh == InitRefresh /\ [][RefreshNext]_vars

-----------------------------------------------------------------------------
\* Properties of the codec (checked under SpecCodec).

HasBar(s) == \E i \in 1..Len(s) : s[i] = "|"

IsAscii(s) == \A i \in 1..Len(s) : Ord(s[i]) < 128

\* C1: decoding the frame that encodes a payload without '|' under sequence S
\* succeeds and returns exactly (S, payload), for every S in 0..255.
C1_RoundTrip ==
    (c_pc = "decoded" /\ c_tamper.kind = "none" /\ ~HasBar(c_data))
        => c_result = [seq |-> c_seq, data |-> c_data, error |-> "OK"]

C1_Witness ==
    /\ c_pc = "decoded"
    /\ c_tamper.kind = "none"
    /\ c_seq = 255
    /\ c_data = <<"A", "7">>
    /\ c_result = [seq |-> 255, data |-> <<"A", "7">>, error |-> "OK"]

\* C2 as stated: after one payload character of a valid frame is replaced by a
\* different character, decode fails with CRC or SIG.
C2_Original ==
    (c_pc = "decoded" /\ c_tamper.kind = "payload" /\ ~HasBar(c_data))
        => c_result.error \in {"CRC", "SIG"}

\* C2 as amended: when the payload and the replacing character are ASCII,
\* decode fails: with FORMAT when the new character is '|' and with CRC or SIG
\* otherwise; it never succeeds.
C2_FlipRejected ==
    (/\ c_pc = "decoded"
     /\ c_tamper.kind = "payload"
     /\ ~HasBar(c_data)
     /\ IsAscii(c_data)
     /\ IsAscii(c_tamper.text))
        => /\ c_result.error \in {"FORMAT", "CRC", "SIG"}
           /\ c_result.error = "FORMAT" <=> c_tamper.text = <<"|">>

C2_Witness ==
    /\ c_pc = "decoded"
    /\ c_tamper = [kind |-> "payload", pos |-> 2, text |-> <<"7">>]
    /\ c_data = <<"7", "A">>
    /\ c_result.error = "CRC"

\* what the frame's fields say, read against the sender's folds
FieldIs(field, n) == IntParse(field).ok /\ IntParse(field).val = n

\* C4 as stated: FORMAT exactly when the frame does not split into 4 fields;
\* for a 4-field frame CRC when the checksum field differs from the payload's
\* checksum and SIG when the tag field differs from the tag of payload and
\* sequence.
C4_Original ==
    c_pc = "decoded" =>
        LET parts == Split(c_frame, "|")
        IN  /\ c_result.error = "FORMAT" <=> Len(parts) /= 4
            /\ Len(parts) = 4 =>
                  /\ ~FieldIs(parts[3], compute_crc8(parts[2]))
                        => c_result.error = "CRC"
                  /\ (IntParse(parts[1]).ok
                        /\ ~FieldIs(parts[4], compute_signature(parts[2], IntParse(parts[1]).val)))
                        => c_result.error = "SIG"

\* C4 as amended: FORMAT exactly when the frame does not split into 4 fields;
\* for a 4-field frame PARSE when the sequence, checksum or tag field is not an
\* integer, otherwise CRC when the checksum differs, otherwise SIG when the tag
\* differs, otherwise success with the frame's sequence and payload; the
\* encoder always yields the four-field text.
C4_DecodeErrors ==
    /\ c_pc = "encoded" =>
          c_frame = Join(<<Str(c_seq), c_data, Str(compute_crc8(c_data)),
                           Str(compute_signature(c_data, c_seq))>>, "|")
    /\ c_pc = "decoded" =>
        LET parts == Split(c_frame, "|")
        IN  /\ c_result.error = "FORMAT" <=> Len(parts) /= 4
            /\ Len(parts) = 4 =>
                  LET numeric == \A k \in {1, 3, 4} : IntParse(parts[k]).ok
                      crc_ok == FieldIs(parts[3], compute_crc8(parts[2]))
                      sig_ok == FieldIs(parts[4],
                                    compute_signature(parts[2], IntParse(parts[1]).val))
                  IN  /\ c_result.error = "PARSE" <=> ~numeric
                      /\ c_result.error = "CRC" <=> (numeric /\ ~crc_ok)
                      /\ c_result.error = "SIG" <=> (numeric /\ crc_ok /\ ~sig_ok)
                      /\ c_result.error = "OK" <=> (numeric /\ crc_ok /\ sig_ok)
                      /\ c_result.error = "OK" =>
                            /\ c_result.seq = IntParse(parts[1]).val
                            /\ c_result.data = parts[2]

C4_Witness ==
    /\ c_pc = "decoded"
    /\ c_tamper = [kind |-> "field", pos |-> 2, text |-> <<"x">>]
    /\ c_data = <<"A">>
    /\ c_result.error = "CRC"

-----------------------------------------------------------------------------
\* Properties of the retry engine and the relay (checked under Spec).

\* a step that is the main loop's call of check_ack
ChecksAck == u_pc = "check_ack" /\ u_pc' = "rest"

\* a step of check_ack that puts last_message on the air again
Retransmits == u_pc = "check_ack" /\ tx_count' /= tx_count

\* the packet check_ack is about to read is an ACK carrying the number n
HeadIsAckWith(n) ==
    /\ u_inbox /= <<>>
    /\ IsAck(Head(u_inbox))
    /\ AckSeq(Head(u_inbox)).ok
    /\ AckSeq(Head(u_inbox)).val = n

\* C36: the reason decode reports is that of the first failing check in the
\* order field count (FORMAT), integer reading of sequence, checksum and tag
\* (PARSE), checksum (CRC), tag (SIG): every reported reason means that all
\* earlier checks passed and this one failed; a frame whose checksum and tag
\* are both wrong is reported as CRC, and a 4-field frame with a non-numeric
\* field as PARSE, never as FORMAT.
C36_FirstFailingCheck ==
    c_pc = "decoded" =>
        LET parts == Split(c_frame, "|")
            count_ok == Len(parts) = 4
            numeric == \A k \in {1, 3, 4} : IntParse(parts[k]).ok
            crc_ok == relay_compute_crc8(parts[2]) = IntParse(parts[3]).val
            sig_ok == relay_compute_signature(parts[2], IntParse(parts[1]).val)
                         = IntParse(parts[4]).val
            passed == CASE c_result.error = "FORMAT" -> 0
                        [] c_result.error = "PARSE" -> 1
                        [] c_result.error = "CRC" -> 2
                        [] c_result.error = "SIG" -> 3
                        [] OTHER -> 4
        IN  /\ c_result.error \in {"FORMAT", "PARSE", "CRC", "SIG", "OK"}
            /\ passed >= 1 => count_ok
            /\ passed >= 2 => numeric
            /\ passed >= 3 => crc_ok
            /\ passed >= 4 => sig_ok
            /\ passed = 0 => ~count_ok
            /\ passed = 1 => ~numeric
            /\ passed = 2 => ~crc_ok
            /\ passed = 3 => ~sig_ok
            /\ (count_ok /\ numeric /\ ~crc_ok /\ ~sig_ok) => c_result.error = "CRC"
            /\ (count_ok /\ ~numeric) => c_result.error = "PARSE"

\* a payload character changed in flight: checksum and tag are both wrong and
\* the reason is CRC
C36_Witness ==
    /\ c_pc = "decoded"
    /\ c_tamper.kind = "payload"
    /\ LET parts == Split(c_frame, "|")
       IN  /\ Len(parts) = 4
           /\ relay_compute_crc8(parts[2]) /= IntParse(parts[3]).val
           /\ relay_compute_signature(parts[2], IntParse(parts[1]).val)
                 /= IntParse(parts[4]).val
    /\ c_result.error = "CRC"

\* C5: a send that no acknowledgment answers and no later send replaces is
\* transmitted 1 + MAX_RETRIES times in all: never more, exactly that many
\* once the sender is idle again, and the pass that finds the retries used up
\* after the timeout leaves the sender idle.
C5_ExactlyMaxRetries ==
    /\ [](tx_count <= 1 + MAX_RETRIES)
    /\ []((u_pc /= "start" /\ ~waiting_for_ack /\ ack_heard = "no")
            => tx_count = 1 + MAX_RETRIES)
    /\ []((waiting_for_ack /\ ack_heard = "no") => tx_count = 1 + retry_count)
    /\ [][(/\ ChecksAck
           /\ waiting_for_ack
           /\ ~(u_inbox /= <<>> /\ IsAck(Head(u_inbox)))
           /\ u_now - last_retry_time > ACK_TIMEOUT
           /\ retry_count = MAX_RETRIES)
          => (~waiting_for_ack' /\ tx_count' = tx_count)]_vars

C5_Witness ==
    /\ u_pc = "rest"
    /\ ~waiting_for_ack
    /\ ack_heard = "no"
    /\ tx_count = 1 + MAX_RETRIES
    /\ retry_count = MAX_RETRIES

\* C6: while a frame is in flight, check_ack reading an ACK whose number is
\* not the frame's sequence leaves the sender waiting with its retry counter
\* unchanged.
C6_ForeignAckIgnored ==
    [][(/\ ChecksAck
        /\ waiting_for_ack
        /\ u_inbox /= <<>>
        /\ IsAck(Head(u_inbox))
        /\ AckSeq(Head(u_inbox)).ok
        /\ AckSeq(Head(u_inbox)).val /= FrameSeq(last_message))
       => (waiting_for_ack' /\ retry_count' = retry_count)]_vars

\* C7: check_ack reading an ACK that carries the in-flight sequence leaves
\* the sender idle in that very pass without transmitting, and a frame is
\* retransmitted only while no ACK has been taken for it.
C7_MatchingAckStops ==
    /\ [][(ChecksAck /\ waiting_for_ack /\ HeadIsAckWith(FrameSeq(last_message)))
          => (~waiting_for_ack' /\ tx_count' = tx_count /\ ack_heard' = "matching")]_vars
    /\ [][Retransmits => (ack_heard = "no" /\ waiting_for_ack)]_vars
    /\ [](ack_heard = "matching" => ~waiting_for_ack)

C7_Witness ==
    /\ ack_heard = "matching"
    /\ ~waiting_for_ack
    /\ tx_count = 2

\* C8: a retransmission puts on the air the very text recorded by send_secure,
\* leaves the sequence counter and the recorded text alone, and adds exactly
\* one to the retry counter.
C8_RetransmitSameFrame ==
    [][Retransmits =>
          /\ u_last_tx' = [kind |-> "retransmit", text |-> sent_text]
          /\ last_message = sent_text
          /\ last_message' = last_message
          /\ sent_text' = sent_text
          /\ r_inbox' \in Deliveries(r_inbox, sent_text)
          /\ sequence_number' = sequence_number
          /\ retry_count' = retry_count + 1
          /\ tx_count' = tx_count + 1]_vars

C8_Witness ==
    /\ u_last_tx.kind = "retransmit"
    /\ u_last_tx.text = sent_text
    /\ retry_count = 2
    /\ sequence_number = 2

\* C10: when the relay takes a frame that validates, carries unit data and
\* repeats the sequence stored for its sender, it sends ACK:<sequence> as it
\* does for a fresh frame (and prints the REJECT:DUP line).
C10_DuplicateAcked ==
    [][(/\ r_inbox /= <<>>
        /\ Len(r_inbox') < Len(r_inbox)
        /\ parse_secure_message(Head(r_inbox)).error = "OK"
        /\ parse_unit_data(parse_secure_message(Head(r_inbox)).data).ok
        /\ parse_unit_data(parse_secure_message(Head(r_inbox)).data).call_sign
              \in DOMAIN last_sequences
        /\ last_sequences[parse_unit_data(parse_secure_message(Head(r_inbox)).data).call_sign]
              = parse_secure_message(Head(r_inbox)).seq)
       => /\ r_out'.acks = <<ACK_PREFIX \o Str(parse_secure_message(Head(r_inbox)).seq)>>
          /\ r_out'.prints =
                <<REJECT_PREFIX \o DUP_TEXT \o <<":">>
                    \o parse_unit_data(parse_secure_message(Head(r_inbox)).data).call_sign>>
          /\ last_sequences' = last_sequences]_vars

C10_Witness ==
    /\ r_out.prints = <<REJECT_PREFIX \o DUP_TEXT \o <<":">> \o UNIT_ID>>
    /\ r_out.acks = <<ACK_PREFIX \o <<"0">>>>

-----------------------------------------------------------------------------
\* Properties of the duplicate tracker (checked under SpecDup).

\* the latest observation of d_hist[k]'s sender before the k-th, 0 if none
Previous(k) ==
    IF \E j \in 1..(k - 1) : d_hist[j].call_sign = d_hist[k].call_sign
    THEN CHOOSE j \in 1..(k - 1) :
            /\ d_hist[j].call_sign = d_hist[k].call_sign
            /\ \A i \in (j + 1)..(k - 1) : d_hist[i].call_sign /= d_hist[k].call_sign
    ELSE 0

\* C9: an observation is a duplicate exactly when its sender has a stored
\* sequence, that of the sender's latest earlier observation, equal to the
\* observed one; after every observation the stored sequence of a sender is
\* the one it was last observed with. So 7,7 is Fresh, Duplicate and 7,9,7 is
\* Fresh, Fresh, Fresh.
C9_DuplicateExactly ==
    /\ \A k \in 1..Len(d_hist) :
          d_hist[k].dup <=>
             (Previous(k) /= 0 /\ d_hist[Previous(k)].seq = d_hist[k].seq)
    /\ DOMAIN last_sequences = {d_hist[k].call_sign : k \in 1..Len(d_hist)}
    /\ \A k \in 1..Len(d_hist) :
          (\A i \in (k + 1)..Len(d_hist) : d_hist[i].call_sign /= d_hist[k].call_sign)
             => last_sequences[d_hist[k].call_sign] = d_hist[k].seq

C9_Witness ==
    d_hist = <<[call_sign |-> UNIT_ID, seq |-> 7, dup |-> FALSE],
               [call_sign |-> UNIT_ID, seq |-> 9, dup |-> FALSE],
               [call_sign |-> UNIT_ID, seq |-> 7, dup |-> FALSE]>>

\* C37: an observation classified as a duplicate leaves last_sequences as it
\* was; one classified as fresh changes the entry of the observed sender only;
\* the stored sequences of all other senders are unchanged by any observation
\* and no entry appears for a sender that was not observed.
C37_ObserveTouchesOneSender ==
    [][d_hist' /= d_hist =>
          LET seen == d_hist'[Len(d_hist')]
          IN  /\ seen.dup => last_sequences' = last_sequences
              /\ ~seen.dup =>
                    /\ seen.call_sign \in DOMAIN last_sequences'
                    /\ last_sequences'[seen.call_sign] = seen.seq
              /\ \A c \in DOMAIN last_sequences \ {seen.call_sign} :
                    /\ c \in DOMAIN last_sequences'
                    /\ last_sequences'[c] = last_sequences[c]
              /\ DOMAIN last_sequences' \subseteq
                    DOMAIN last_sequences \cup {seen.call_sign}]_vars

\* one sender observed twice with the same sequence around an observation of
\* the other sender: the second is a duplicate and both entries stand
C37_Witness ==
    /\ d_hist = <<[call_sign |-> UNIT_ID, seq |-> 7, dup |-> FALSE],
                  [call_sign |-> OTHER_ID, seq |-> 9, dup |-> FALSE],
                  [call_sign |-> UNIT_ID, seq |-> 7, dup |-> TRUE]>>
    /\ last_sequences[OTHER_ID] = 9
    /\ last_sequences[UNIT_ID] = 7

-----------------------------------------------------------------------------
\* Properties of the gateway (checked under SpecGateway).

\* the line is a frame whose checksum and tag validate against its payload
\* and sequence
Validates(line) ==
    LET parts == Split(line, "|")
    IN  /\ Len(parts) = 4
        /\ \A k \in {1, 3, 4} : IntParse(parts[k]).ok
        /\ IntParse(parts[3]).val = compute_crc8(parts[2])
        /\ IntParse(parts[4]).val = compute_signature(parts[2], IntParse(parts[1]).val)

\* C3: no backend write of the gateway is caused by a line in frame form
\* (fields separated by '|') whose checksum and tag do not both validate; in
\* particular the damaged frame 0|STA:MB001,UWY|999|999 causes none. (A line
\* without '|' is a payload the relay printed after validating its frame.)
C3_OnlyValidatedActedOn ==
    \A k \in 1..Len(g_calls) :
        /\ HasBar(g_calls[k].line) => Validates(g_calls[k].line)
        /\ g_calls[k].line /= CORRUPT_FRAME

-----------------------------------------------------------------------------
\* Properties of the relay (checked under SpecRelay).

\* the relay takes the frame at the head of its queue
RelayTakes == r_inbox /= <<>> /\ Len(r_inbox') < Len(r_inbox)

\* the decoded frame at the head of the relay's queue
Heard == parse_secure_message(Head(r_inbox))

\* the unit data of the frame at the head of the relay's queue
HeardUnit == parse_unit_data(Heard.data)

\* the frame at the head validates and repeats its sender's recorded sequence
HeardRepeats ==
    /\ Heard.error = "OK"
    /\ HeardUnit.ok
    /\ HeardUnit.call_sign \in DOMAIN last_sequences
    /\ last_sequences[HeardUnit.call_sign] = Heard.seq

\* C11: when the relay takes a validated frame whose sequence equals the one
\* recorded for its sender, it prints no line carrying the payload: the only
\* line printed is a REJECT:DUP diagnostic, and current_status keeps its value.
C11_DuplicateNotForwarded ==
    [][(RelayTakes /\ HeardRepeats)
       => /\ Len(r_out'.prints) = 1
          /\ \A i \in 1..Len(r_out'.prints) :
                /\ r_out'.prints[i] /= Heard.data
                /\ StartsWith(r_out'.prints[i], REJECT_PREFIX \o DUP_TEXT)
          /\ r_current_status' = r_current_status]_vars

C11_Witness ==
    /\ r_out.prints = <<REJECT_PREFIX \o DUP_TEXT \o <<":">> \o OTHER_ID>>
    /\ OTHER_ID \in DOMAIN last_sequences
    /\ last_sequences[OTHER_ID] = 0

\* C12: when the relay takes a frame that validates and does not repeat its
\* sender's recorded sequence, it sends ACK:<sequence> and prints the payload,
\* whatever the payload's type.
C12_FreshAckedAndForwarded ==
    [][(RelayTakes /\ Heard.error = "OK" /\ ~HeardRepeats)
       => /\ r_out'.acks = <<send_ack(Heard.seq)>>
          /\ r_out'.prints = <<Heard.data>>]_vars

\* C21: when the relay takes a frame that fails validation, it prints exactly
\* one line, REJECT:<reason>:<the first 30 characters of the frame>, sends no
\* ACK, and leaves last_sequences and current_status as they were, so that
\* every frame is handled afterwards as it would have been before.
C21_RejectAffectsOnlyItself ==
    [][(RelayTakes /\ ~IsAck(Head(r_inbox)) /\ Heard.error /= "OK")
       => /\ r_out'.prints =
                <<REJECT_PREFIX \o ErrorText(Heard.error) \o <<":">>
                    \o SubSeq(Head(r_inbox), 1,
                              IF Len(Head(r_inbox)) > 30 THEN 30 ELSE Len(Head(r_inbox)))>>
          /\ Len(r_out'.prints[1]) <= Len(REJECT_PREFIX) + Len(ErrorText(Heard.error)) + 31
          /\ r_out'.acks = <<>>
          /\ u_inbox' = u_inbox
          /\ last_sequences' = last_sequences
          /\ r_current_status' = r_current_status
          /\ \A frame \in RelayFrames :
                relay_handle(frame, last_sequences', r_current_status')
                   = relay_handle(frame, last_sequences, r_current_status)]_vars

\* a frame of more than 30 characters was rejected after a report had been
\* recorded and displayed
C21_Witness ==
    /\ r_out.prints = <<REJECT_PREFIX \o ErrorText("SIG") \o <<":">>
                          \o SubSeq(TAMPERED_FRAME, 1, 30)>>
    /\ r_out.acks = <<>>
    /\ Len(TAMPERED_FRAME) > 30
    /\ UNIT_ID \in DOMAIN last_sequences
    /\ r_current_status = STATUS_AVL

\* the frame at the head of the relay's queue validates and carries the
\* report of a sender
HeardValid == Heard.error = "OK" /\ HeardUnit.ok

\* C31: last_sequences starts empty; an entry is never removed; the relay
\* taking a validated frame of a sender leaves that sender's entry at the
\* frame's sequence (creating it if there was none) and every other entry as
\* it was; and no other step changes last_sequences. So a sender has an
\* entry exactly from its first validated frame on, and the entry holds the
\* sequence of the sender's most recent validated frame.
C31_EntryTracksLatestValidated ==
    /\ last_sequences = NoSequences
    /\ [][\A c \in DOMAIN last_sequences : c \in DOMAIN last_sequences']_vars
    /\ [][(RelayTakes /\ HeardValid)
          => /\ DOMAIN last_sequences' = DOMAIN last_sequences \cup {HeardUnit.call_sign}
             /\ last_sequences'[HeardUnit.call_sign] = Heard.seq
             /\ \A c \in DOMAIN last_sequences :
                   c /= HeardUnit.call_sign => last_sequences'[c] = last_sequences[c]]_vars
    /\ [][~(RelayTakes /\ HeardValid) => last_sequences' = last_sequences]_vars

\* the unit's entry was created and then moved on to sequence 255 while the
\* other unit's entry stayed; the frame taken last is the one recorded
C31_Witness ==
    /\ DOMAIN last_sequences = {UNIT_ID, OTHER_ID}
    /\ last_sequences[UNIT_ID] = 255
    /\ last_sequences[OTHER_ID] = 0
    /\ r_out.acks = <<send_ack(255)>>
    /\ r_out.prints = <<MSG_FORMAT(UNIT_ID, GPS_LAT, GPS_LON, STATUS_AVL)>>

-----------------------------------------------------------------------------
\* Properties of the receiving bridge (checked under SpecGateway).

\* the status report a line carries for process_line (ok = FALSE: none)
ReportOf(line) ==
    LET payload == extract_payload(line)
    IN  IF parse_gps_message(payload).ok
        THEN [ok |-> FALSE, microbit_id |-> <<>>, status |-> <<>>]
        ELSE IF parse_sta_message(payload).ok THEN parse_sta_message(payload)
        ELSE parse_mbit_message(payload)

\* the mapping had an entry for the device of log entry e
Mapped(e) == e.unit_id \notin {NONE, <<>>}

\* log entries k and k + 1 are status reports of one mapped device carrying
\* the same status code
SameStatusTwice(k) ==
    /\ ReportOf(g_log[k].line).ok
    /\ ReportOf(g_log[k + 1].line).ok
    /\ ReportOf(g_log[k].line).microbit_id = ReportOf(g_log[k + 1].line).microbit_id
    /\ ReportOf(g_log[k].line).status = ReportOf(g_log[k + 1].line).status
    /\ Mapped(g_log[k])
    /\ Mapped(g_log[k + 1])

\* C13 as stated: two consecutive reports of the same status for a mapped
\* device, the first of which found the status changed and issued the PATCH,
\* produce exactly one status PATCH in total.
C13_Original ==
    \A k \in 1..(Len(g_log) - 1) :
        (SameStatusTwice(k) /\ g_log[k].calls /= <<>>)
        => Len(g_log[k].calls) + Len(g_log[k + 1].calls) = 1

\* C13 (amended): of two consecutive reports of the same status for a mapped
\* device, the second issues no backend call when the first issued none or
\* its PATCH succeeded, and issues the status PATCH again when the first
\* one's PATCH failed.
C13_SecondSuppressed ==
    \A k \in 1..(Len(g_log) - 1) :
        SameStatusTwice(k)
        => /\ (g_log[k].calls = <<>> \/ g_log[k].calls[1].ok)
                => g_log[k + 1].calls = <<>>
           /\ (g_log[k].calls /= <<>> /\ ~g_log[k].calls[1].ok)
                => /\ Len(g_log[k + 1].calls) = 1
                   /\ g_log[k + 1].calls[1].kind = "status"
                   /\ g_log[k + 1].calls[1].body = g_log[k].calls[1].body

C13_Witness ==
    /\ Len(g_log) = 2
    /\ SameStatusTwice(1)
    /\ Len(g_log[1].calls) = 1
    /\ g_log[1].calls[1].ok
    /\ g_log[2].calls = <<>>
    /\ Len(g_calls) = 1

\* the location report a line carries for process_line
LocationOf(line) == parse_gps_message(extract_payload(line))

\* the backend calls of one kind among calls
OfKind(calls, kind) == {i \in 1..Len(calls) : calls[i].kind = kind}

\* C16: every location report of a mapped device issues exactly one backend
\* location update with its coordinates, whether or not they repeat those of
\* the report before; no other line issues a location update, so an update
\* the backend refused is not made again.
C16_EveryLocationForwarded ==
    /\ \A k \in 1..Len(g_log) :
          IF LocationOf(g_log[k].line).ok /\ Mapped(g_log[k])
          THEN /\ Len(g_log[k].calls) = 1
               /\ g_log[k].calls[1].kind = "location"
               /\ g_log[k].calls[1].unit_id = g_log[k].unit_id
               /\ g_log[k].calls[1].body =
                     <<LocationOf(g_log[k].line).lat, LocationOf(g_log[k].line).lon>>
          ELSE OfKind(g_log[k].calls, "location") = {}
    /\ Cardinality(OfKind(g_calls, "location"))
          = Cardinality({k \in 1..Len(g_log) :
                            LocationOf(g_log[k].line).ok /\ Mapped(g_log[k])})

C16_Witness ==
    /\ Len(g_log) = 3
    /\ LocationOf(g_log[1].line).ok
    /\ g_log[2].line = g_log[1].line
    /\ Len(g_log[1].calls) = 1
    /\ ~g_log[1].calls[1].ok
    /\ Len(g_log[2].calls) = 1
    /\ g_log[2].calls[1].body = g_log[1].calls[1].body
    /\ ~LocationOf(g_log[3].line).ok
    /\ Cardinality(OfKind(g_calls, "location")) = 2

\* C20: a line that is a REJECT diagnostic of the relay leads to no backend
\* call, whatever frame text it embeds.
C20_RejectNeverActedOn ==
    \A k \in 1..Len(g_log) :
        StartsWith(g_log[k].line, REJECT_PREFIX) => g_log[k].calls = <<>>

-----------------------------------------------------------------------------
\* Properties of bridge.py (checked under SpecBridge).

\* the latest line bridge.py processed made a request of this kind that succeeded
Succeeded(log, kind) ==
    /\ log /= <<>>
    /\ \E i \in 1..Len(log[Len(log)].calls) :
          /\ log[Len(log)].calls[i].kind = kind
          /\ log[Len(log)].calls[i].ok

\* C14: last_statuses changes only in a step whose status PATCH succeeded; a
\* failed PATCH leaves it as it was.
C14_ChangesOnlyOnSuccess ==
    [][b_last_statuses' /= b_last_statuses => Succeeded(b_log', "status")]_vars

\* the step processes a report of a unit that is neither in known_units nor
\* in the backend's list: the GET succeeded and found no identifier
ReportsUnlisted ==
    /\ Len(b_log') = Len(b_log) + 1
    /\ b_log'[Len(b_log')].calls /= <<>>
    /\ b_log'[Len(b_log')].calls[1].kind = "get"
    /\ b_log'[Len(b_log')].calls[1].ok
    /\ b_log'[Len(b_log')].calls[1].unit_id = NONE

\* C15: a report of a device the mapping has no entry for leads to no backend
\* write (no PATCH, no create) and leaves last_statuses as it was.
C15_UnmappedNoWrite ==
    [][ReportsUnlisted
       => /\ \A i \in 1..Len(b_log'[Len(b_log')].calls) :
                b_log'[Len(b_log')].calls[i].kind = "get"
          /\ b_last_statuses' = b_last_statuses]_vars

\* C17: the status bridge.py sends to the backend for a report is the table's
\* translation of the report's code when the code is in the table, and the
\* code itself when it is not.
C17_TableOrUnchanged ==
    \A k \in 1..Len(b_log) : \A i \in 1..Len(b_log[k].calls) :
        b_log[k].calls[i].kind = "status"
        => b_log[k].calls[i].body =
              (IF parse_unit_message(b_log[k].line).status \in DOMAIN bridge_STATUS_MAP
               THEN bridge_STATUS_MAP[parse_unit_message(b_log[k].line).status]
               ELSE parse_unit_message(b_log[k].line).status)

-----------------------------------------------------------------------------
\* Properties of the line framer (checked under SpecFramer).

\* the lines handed to process_line so far, in the order they were handed
LinesProcessed == [k \in 1..Len(g_log) |-> g_log[k].line]

\* what one read of all the bytes read so far gives: the lines and the rest
Unsplit == split_lines(decode_ignore(SubSeq(f_stream, 1, f_pos)))

\* C18: however the bytes read so far were cut into reads, the lines produced
\* are the lines of the same bytes taken in one read, and the buffer holds
\* the text after the last newline.
C18_ChunkingInvisible ==
    /\ LinesProcessed = accepted(Unsplit.lines)
    /\ serial_buffer = Unsplit.buffer

\* the text the latest read handed to the framer: the buffer as it was and
\* the bytes of that read
ReadText == f_before.buffer \o decode_ignore(SubSeq(f_stream, f_prev + 1, f_pos))

\* the texts before the newlines of ReadText
RawLines == LET parts == Split(ReadText, LF) IN SubSeq(parts, 1, Len(parts) - 1)

\* the lines the latest read handed to process_line
YieldedNow == [i \in 1..(Len(g_log) - f_before.lines) |-> g_log[f_before.lines + i].line]

\* C32 as stated: each line yielded is the text before the newline with at
\* most one trailing carriage return removed, other white space kept, and
\* an empty line is yielded as an empty line.
C32_Original ==
    f_pos > 0
    => LET raw == RawLines
       IN  YieldedNow = [i \in 1..Len(raw) |-> rstrip_one_cr(raw[i])]

\* C32 (amended): each line yielded is the text before a newline with all
\* the white space at its start and at its end removed, carriage returns
\* included; a text that is empty after that is not yielded; the texts are
\* yielded in their order, and the text after the last newline stays in the
\* buffer.
C32_LinesStripped ==
    f_pos > 0
    => LET parts == Split(ReadText, LF)
           yielded == YieldedNow
       IN  /\ yielded =
                 SelectSeq([i \in 1..(Len(parts) - 1) |-> RStrip(LStrip(parts[i]))],
                           LAMBDA line : Len(line) > 0)
           /\ \A i \in 1..Len(yielded) :
                 /\ yielded[i] /= <<>>
                 /\ yielded[i][1] \notin Whitespace
                 /\ yielded[i][Len(yielded[i])] \notin Whitespace
           /\ serial_buffer = parts[Len(parts)]

\* the line " OK" followed by a tab and two carriage returns was read whole
\* and yielded without the white space around it
C32_Witness ==
    /\ f_stream = Utf8(PADDED_LINE)
    /\ f_pos = Len(f_stream)
    /\ f_prev = 0
    /\ LinesProcessed = <<<<"O", "K">>>>
    /\ serial_buffer = <<>>

RECURSIVE CallsOf(_)
\* the backend calls of the lines of a log, line after line
CallsOf(log) == IF log = <<>> THEN <<>> ELSE Head(log).calls \o CallsOf(Tail(log))

\* every byte of the stream is ASCII
AsciiStream == \A i \in 1..Len(f_stream) : f_stream[i] < 128

\* C19: the lines of an ASCII stream are handed to process_line in the order
\* they have in the stream, and the backend calls are issued line after
\* line: all calls of a line come before any call of a later line.
C19_ProcessedInStreamOrder ==
    /\ g_calls = CallsOf(g_log)
    /\ \A i \in 1..Len(g_calls) : \E k \in 1..Len(g_log) : g_calls[i].line = g_log[k].line
    /\ AsciiStream => LinesProcessed = accepted(Unsplit.lines)

C19_Witness ==
    /\ f_prev = 0
    /\ f_pos = Len(f_stream)
    /\ LinesProcessed = <<STA_PAYLOAD, GPS_SHORT>>
    /\ Len(g_calls) = 2
    /\ g_calls[1].line = STA_PAYLOAD
    /\ g_calls[2].line = GPS_SHORT

\* the backend call c is one the report of line can cause
CausedBy(c, line) ==
    /\ c.line = line
    /\ c.kind = "location"
         => /\ LocationOf(line).ok
            /\ c.body = <<LocationOf(line).lat, LocationOf(line).lon>>
    /\ c.kind = "status"
         => /\ ReportOf(line).ok
            /\ c.body = normalize_status(ReportOf(line).status)

\* C25: a processed report causes at most one status PATCH and at most one
\* location PATCH, failed or not, and every backend call made is the one
\* call of a processed report that carries its fact: a write the backend
\* refused is made again only by a later report of the same fact.
C25_NoRetryWithinIteration ==
    /\ \A k \in 1..Len(g_log) :
          /\ Cardinality(OfKind(g_log[k].calls, "status")) <= 1
          /\ Cardinality(OfKind(g_log[k].calls, "location")) <= 1
          /\ Len(g_log[k].calls) <= 1
          /\ \A i \in 1..Len(g_log[k].calls) : CausedBy(g_log[k].calls[i], g_log[k].line)
    /\ g_calls = CallsOf(g_log)
    /\ Len(g_calls) = Cardinality({k \in 1..Len(g_log) : g_log[k].calls /= <<>>})

\* a status PATCH failed; nothing more was tried for that report, and the
\* next report of the same status made the PATCH again
C25_Witness ==
    /\ Len(g_log) = 2
    /\ ReportOf(g_log[1].line).ok
    /\ Len(g_log[1].calls) = 1
    /\ g_log[1].calls[1].kind = "status"
    /\ ~g_log[1].calls[1].ok
    /\ g_log[2].line = g_log[1].line
    /\ Len(g_log[2].calls) = 1
    /\ g_log[2].calls[1].body = g_log[1].calls[1].body
    /\ Len(g_calls) = 2

-----------------------------------------------------------------------------
\* Properties of the mapping refresh (checked under SpecRefresh).

\* the (device, backend identifier) pairs a response of the backend holds
PairsOf(units) ==
    {<<units[i].microbit_id, units[i].id>> :
        i \in {j \in 1..Len(units) : units[j].microbit_id /= <<>> /\ units[j].id /= <<>>}}

\* the pairs the mapping cache holds
CachePairs == {<<k, microbit_to_unit[k]>> : k \in DOMAIN microbit_to_unit}

\* the caches the emitting bridge may hold before a refresh
EmitterCaches == {load_microbit_mapping(FALSE, units) : units \in UnitsResponses}

\* C22: once a refresh has finished, the cache holds exactly the pairs of the
\* response to that refresh (none when the request failed): no entry of the
\* cache as it was before survives unless the response holds it. The same
\* holds of the emitting bridge's cache, whatever it held before.
C22_RefreshReplacesCache ==
    (g_pc = "loop" /\ g_refreshes > 0)
    => /\ CachePairs = (IF g_response.failed THEN {} ELSE PairsOf(g_response.units))
       /\ \A k \in DOMAIN g_before :
             k \in DOMAIN microbit_to_unit
             => <<k, microbit_to_unit[k]>> \in PairsOf(g_response.units)
       /\ \A old \in EmitterCaches :
             LET new == emitter_refresh(old, g_response.failed, g_response.units)
             IN  {<<new[u], u>> : u \in DOMAIN new}
                    = (IF g_response.failed THEN {} ELSE PairsOf(g_response.units))

\* a refresh answered with MB001 alone removed the entry of MB002
C22_Witness ==
    /\ g_pc = "loop"
    /\ g_refreshes = 1
    /\ ~g_response.failed
    /\ DOMAIN g_before = {MB001, MB002}
    /\ DOMAIN microbit_to_unit = {MB001}

\* the latest load of the mapping, the initial one or a refresh, has failed
LoadFailed == g_pc = "loop" /\ g_response.failed

\* C35: after a load of the mapping that failed the cache is empty, whatever
\* it held before the refresh, and it stays so until the next refresh ends;
\* every report processed meanwhile finds no backend identifier and causes
\* no backend call. The emitting bridge's cache is empty as well after a
\* failed load.
C35_FailedRefreshEmptiesCache ==
    /\ [](LoadFailed => microbit_to_unit = NoEntries)
    /\ [][(LoadFailed /\ g_lines' /= g_lines)
          => /\ g_calls' = g_calls
             /\ Len(g_log') > Len(g_log)
             /\ \A k \in (Len(g_log) + 1)..Len(g_log') :
                   /\ g_log'[k].calls = <<>>
                   /\ g_log'[k].unit_id = NONE]_vars
    /\ [](\A old \in EmitterCaches, units \in UnitsResponses :
             emitter_refresh(old, TRUE, units) = NoEntries)

\* the cache held MB001; the refresh failed; the status report of MB001 that
\* arrived afterwards was processed and dropped without a backend call
C35_Witness ==
    /\ g_refreshes = 1
    /\ LoadFailed
    /\ MB001 \in DOMAIN g_before
    /\ microbit_to_unit = NoEntries
    /\ Len(g_port) = 1
    /\ ~g_port[1].during
    /\ g_port[1].before = NoEntries
    /\ Len(g_log) = 1
    /\ g_log[1].line = STA_PAYLOAD
    /\ g_log[1].calls = <<>>
    /\ g_calls = <<>>

\* C23: a report that arrived while a refresh was in progress is resolved
\* against the cache as the latest refresh finished before its arrival had
\* left it.
C23_ResolvedAgainstLastCompleted ==
    \A k \in 1..Len(g_log) :
        g_port[k].during => g_log[k].unit_id = lookup(g_log[k].line, g_port[k].before)

-----------------------------------------------------------------------------
\* Properties of the sequence counter (checked under SpecWrap).

\* the sequence carried by the n-th frame a sender builds
NthSeq(n) == (n - 1) % 256

\* C24: the sequence counter stays in 0..255; the n-th frame built carries
\* (n - 1) mod 256, so the frame after sequence 255 carries 0 (the emitting
\* bridge's build_packet steps its counter the same way); and the relay
\* takes every such frame as fresh: it sends ACK:<sequence>, prints the
\* payload and records the sequence.
C24_SequenceWraps ==
    /\ [](/\ sequence_number \in 0..255
           /\ sequence_number = w_built % 256
           /\ w_built > 0 => FrameSeq(last_message) = NthSeq(w_built)
           /\ build_packet(STA_PAYLOAD, sequence_number).next_out_seq
                 = NthSeq(w_built + 2)
           /\ FrameSeq(build_packet(STA_PAYLOAD, sequence_number).packet)
                 = NthSeq(w_built + 1))
    /\ [][RelayTakes
          => /\ r_out'.acks = <<ACK_PREFIX \o Str(NthSeq(w_built))>>
             /\ r_out'.prints = <<MSG_FORMAT(UNIT_ID, GPS_LAT, GPS_LON, STATUS_AVL)>>
             /\ last_sequences'[UNIT_ID] = NthSeq(w_built)]_vars

\* the 257th frame, the one after sequence 255, was taken as fresh
C24_Witness ==
    /\ w_built = 257
    /\ FrameSeq(last_message) = 0
    /\ sequence_number = 1
    /\ r_inbox = <<>>
    /\ r_out.acks = <<ACK_PREFIX \o <<"0">>>>
    /\ r_out.prints = <<MSG_FORMAT(UNIT_ID, GPS_LAT, GPS_LON, STATUS_AVL)>>
    /\ last_sequences[UNIT_ID] = 0

-----------------------------------------------------------------------------
\* Properties of the receiving loops on damaged input (checked under
\* SpecInput).

\* the text of log entry e is damaged input for the program that took it
Malformed(e) ==
    IF e.prog = "relay" THEN e.text \in MalformedPackets ELSE e.text \in MalformedLines

-----------------------------------------------------------------------------
\* Properties of the bridge processes (checked under SpecProc).

\* C27: a bridge process that has opened its serial handle ends, on every
\* exit path, with the handle closed: the interrupt or error may come at any
\* point after the open, the wait for the backend and the initial load of
\* the mapping included.
C27_ClosedOnEveryExit == p_exit /= -1 => p_ser /= "open"

\* C28: a bridge process that finds no serial port or cannot open it ends
\* with a non-zero status before any pass of its main loop, and no other
\* end of the process has a non-zero status.
C28_NonZeroOnlyWithoutTransport ==
    p_exit /= -1
    => /\ p_exit /= 0 <=> p_cause \in {"no_port", "open_failed"}
       /\ p_cause \in {"no_port", "open_failed"} => p_passes = 0

-----------------------------------------------------------------------------
\* Properties of send_secure (checked under Spec).

\* a step in which the unit calls send_secure
Sends == sequence_number' /= sequence_number

\* C29: send_secure transmits one frame, which carries the payload and the
\* sequence number the unit had before the call; the sequence counter
\* advances by one modulo 256; afterwards the unit waits for an ACK with the
\* transmitted text recorded in last_message, retry_count at 0 and the time
\* of the send stamped in last_retry_time.
C29_SendEffects ==
    [][Sends
       => /\ u_last_tx'.kind = "send"
          /\ tx_count' = 1
          /\ r_inbox' \in {r_inbox, Append(r_inbox, u_last_tx'.text)}
          /\ FrameSeq(u_last_tx'.text) = sequence_number
          /\ Split(u_last_tx'.text, "|")[2]
                = MSG_FORMAT(UNIT_ID, GPS_LAT, GPS_LON, u_current_status')
          /\ parse_secure_message(u_last_tx'.text).error = "OK"
          /\ sequence_number' = (sequence_number + 1) % 256
          /\ waiting_for_ack'
          /\ last_message' = u_last_tx'.text
          /\ retry_count' = 0
          /\ last_retry_time' = u_now]_vars

\* a second report was sent after the first had been retransmitted
C29_Witness ==
    /\ sequence_number = 2
    /\ u_last_tx.kind = "send"
    /\ FrameSeq(last_message) = 1
    /\ last_message = u_last_tx.text
    /\ waiting_for_ack
    /\ retry_count = 0
    /\ tx_count = 1
    /\ last_retry_time >= 600

\* C30: the unit has one frame in flight. A send_secure made while an ACK
\* is awaited replaces the recorded frame by the new one and restarts
\* retry_count at 0; every frame check_ack puts on the air afterwards is the
\* newest frame built, so the replaced frame is never transmitted again.
C30_SendSupersedes ==
    /\ [][(Sends /\ waiting_for_ack)
          => /\ retry_count' = 0
             /\ last_message' /= last_message
             /\ FrameSeq(last_message') = sequence_number
             /\ u_last_tx'.text = last_message']_vars
    /\ [][Retransmits
          => /\ u_last_tx'.text = last_message
             /\ FrameSeq(u_last_tx'.text) = (sequence_number - 1) % 256
             /\ UNCHANGED last_message]_vars
    /\ [](tx_count > 0 => /\ u_last_tx.text = last_message
                          /\ FrameSeq(last_message) = (sequence_number - 1) % 256)

\* no ACK was ever sent; the second report replaced the first while the
\* first was still awaited, and the frame retransmitted since is the second
C30_Witness ==
    /\ sequence_number = 2
    /\ last_sequences = NoSequences
    /\ foreign_sent = 0
    /\ u_inbox = <<>>
    /\ u_now <= 1800
    /\ u_last_tx.kind = "retransmit"
    /\ FrameSeq(u_last_tx.text) = 1
    /\ retry_count = 1
    /\ waiting_for_ack

\* a step that puts a frame of the unit on the air
Transmits == Sends \/ tx_count' /= tx_count

\* C34: retry_count stays within 0..MAX_RETRIES; check_ack transmits nothing
\* while waiting_for_ack is false; and check_ack retransmits only while an
\* ACK is awaited and more than ACK_TIMEOUT has passed since
\* last_retry_time, which is the time of the unit's latest transmission,
\* send or retransmission.
C34_RetryBounds ==
    /\ [](retry_count \in 0..MAX_RETRIES)
    /\ [][(ChecksAck /\ ~waiting_for_ack)
          => /\ tx_count' = tx_count
             /\ u_last_tx' = u_last_tx
             /\ r_inbox' = r_inbox
             /\ ~waiting_for_ack']_vars
    /\ [][Retransmits
          => /\ waiting_for_ack
             /\ u_now - last_retry_time > ACK_TIMEOUT
             /\ retry_count < MAX_RETRIES]_vars
    /\ [][IF Transmits THEN last_retry_time' = u_now
          ELSE last_retry_time' = last_retry_time]_vars

\* the frame has been retransmitted for the third time, 600 ms after the
\* second, and the unit still waits
C34_Witness ==
    /\ retry_count = MAX_RETRIES
    /\ tx_count = 1 + MAX_RETRIES
    /\ waiting_for_ack
    /\ u_last_tx.kind = "retransmit"
    /\ last_retry_time = 1800
    /\ u_pc = "rest"

-----------------------------------------------------------------------------
\* Properties of one unit and the relay on a channel that loses packets
\* (checked under SpecOnce).

\* how often the relay has forwarded the report of the frame with sequence n
Forwards(n) == Cardinality({i \in 1..Len(r_forwarded) : r_forwarded[i].seq = n})

\* C33: with one unit on a channel that loses frames and ACKs but keeps
\* their order and makes no copies, the relay forwards the report of each
\* send_secure call at most once, however many transmissions of its frame
\* arrive: every sequence number built so far appears at most once among
\* the forwarded reports, and these follow the order of the sends.
C33_ForwardedAtMostOnce ==
    /\ \A n \in 0..255 : Forwards(n) <= 1
    /\ \A i \in 1..Len(r_forwarded) :
          /\ r_forwarded[i].seq < sequence_number
          /\ \A j \in 1..(i - 1) : r_forwarded[j].seq < r_forwarded[i].seq
    /\ Len(r_forwarded) <= sequence_number

\* the first frame was forwarded, its ACK was lost, and the retransmission
\* the relay took last was answered as a duplicate and not forwarded again
C33_Witness ==
    /\ sequence_number = 1
    /\ tx_count >= 2
    /\ Len(r_forwarded) = 1
    /\ r_forwarded[1].seq = 0
    /\ r_out.prints = <<REJECT_PREFIX \o DUP_TEXT \o <<":">> \o UNIT_ID>>
    /\ r_out.acks = <<send_ack(0)>>

-----------------------------------------------------------------------------
\* Properties of the token manager (checked under SpecToken).

\* the threads inside the with block of get_token
InGetToken == {c \in Threads : t_pc[c] \in {"check", "fetch", "return"}}

\* the threads whose request is under way
Fetching == {c \in Threads : t_pc[c] = "fetch"}

\* C38: a call of get_token fetches exactly when no token is held or the
\* time it reads is later than expires_at - 30 s; at most one thread is inside
\* get_token's with block, so two fetches never overlap; after a failed fetch
\* the held token is None, the call returns None and the next call to take
\* the lock fetches again.
C38_FetchWhenNeededUnderLock ==
    /\ \A k \in 1..Len(t_log) :
          LET call == t_log[k].call
          IN  /\ call.fetched <=>
                    (call.held = NO_TOKEN \/ call.now > call.expires_at - 30)
              /\ call.failed =>
                    /\ call.fetched
                    /\ t_log[k].returned = NO_TOKEN
                    /\ k < Len(t_log) => t_log[k + 1].call.fetched
    /\ Cardinality(InGetToken) <= 1
    /\ Cardinality(Fetching) <= 1
    /\ InGetToken = IF t_lock = 0 THEN {} ELSE {t_lock}
    /\ \A c \in Threads :
          (t_pc[c] = "return" /\ t_seen[c].failed) => access_token = NO_TOKEN
    /\ (t_lock = 0 /\ Len(t_log) > 0 /\ t_log[Len(t_log)].call.failed)
          => access_token = NO_TOKEN

\* a call whose fetch failed and returned None; the next call, of the other
\* thread, has fetched again and holds a token; the first thread has called
\* once more and waits for the lock
C38_Witness ==
    /\ Len(t_log) = 1
    /\ t_log[1].call.failed /\ t_log[1].returned = NO_TOKEN
    /\ \E c \in Threads :
          /\ t_pc[c] = "return"
          /\ t_seen[c].fetched /\ t_seen[c].held = NO_TOKEN
          /\ access_token = "T1"
          /\ t_pc[t_log[1].thread] = "waiting"
          /\ c /= t_log[1].thread

-----------------------------------------------------------------------------
\* Properties of the cipher (checked under SpecCrypto).

\* every character has a code point below 256
Latin1(text) == \A i \in 1..Len(text) : text[i] < 256

\* C39: for a non-empty key and a text whose characters, like the key's, have
\* code points below 256, xor_encrypt does not raise and xor_decrypt of its
\* result with the same key is the text; xor_decrypt of an input that
\* base64.b64decode rejects is that input.
C39_RoundTrip ==
    /\ (Len(x_key) > 0 /\ Latin1(x_data) /\ Latin1(x_key)) =>
          /\ x_pc /= "raised"
          /\ x_pc = "round_trip" => x_decrypted = x_data
    /\ (x_pc \in {"round_trip", "decrypted"} /\ b64decode(x_encrypted).raised)
          => x_decrypted = x_encrypted

\* three characters under a key of two, back from the cipher
C39_Witness ==
    /\ x_pc = "round_trip"
    /\ x_data = <<255, 0, 65>>
    /\ x_key = <<70, 200>>
    /\ x_encrypted = <<117, 99, 103, 72>>
    /\ x_decrypted = x_data

====
